---- MODULE Spec2Model ----
(***************************************************************************)
(* Model of the transcription job pipeline: the SQS worker loops           *)
(* (transcription_worker.py, transcription_worker_enhanced.py,             *)
(* quick_worker.py), the chunked transcription engine (transcriber.py,     *)
(* transcriber_gpu_optimized.py), the queue-metrics document               *)
(* (queue_metrics.py) and the autoscaler's sizing function                 *)
(* (scaling_cron.py, scaling_lambda.py).                                   *)
(*                                                                         *)
(* Four specifications share the variables; each one moves its own group   *)
(* and leaves the others at their initial values:                          *)
(*   Spec        the worker loops against the message queue                *)
(*   SpecEngine  the transcription engine against the object store         *)
(*   SpecMetrics concurrent clients of the queue-metrics document          *)
(*   SpecScaler  calculate_needed_instances over its inputs                *)
(***************************************************************************)
EXTENDS Integers, Sequences, FiniteSets, TLC

VARIABLES
    \* ---- worker loops and message queue (Spec)
    now,            \* wall clock, seconds
    kind,           \* worker -> "standard" | "enhanced" | "quick"
    wpc,            \* worker -> position in run()
    claimed,        \* worker -> the message it holds, or 0 for none
    claimedAt,      \* worker -> time it received the message it holds, or 0
    events,         \* worker -> what its latest attempt did, in order
    deleted,        \* message -> the queue no longer holds it
    visibleAt,      \* message -> time from which receive_message may return it
    receives,       \* number of receive_message calls that returned a message
    decrements,     \* complete_job and remove_job calls the attempts have made
    \* ---- transcription engine and object store (SpecEngine)
    nChunks,        \* number of chunks segment_audio cuts the audio into
    modelOut,       \* chunk index -> chunk-local segments the model returns
    chunkStore,     \* chunk index -> Some(stored ChunkResult), or None
    fullStore,      \* transcripts/<id>/full_transcript.json, or None
    fullGpuStore,   \* transcripts/<id>/full_transcript_gpu.json, or None
    epc,            \* engine position: idle | listed | loop | persist | done | failed
    method,         \* the engine entry point of the current call
    video_id,       \* the call's video_id argument: TRUE when given
    completed_segments, \* resume: the indices get_completed_segments returned
    all_segments,   \* segments gathered so far by the current call
    chunkIdx,       \* loop index i of the current call
    pendingResult,  \* shifted segments of chunk i, not yet persisted
    returned,       \* Some(transcript the call returned), or None
    invoked,        \* chunk indices the model was run on by the current call
    wroteChunks,    \* chunk indices the current call has put to the store
    wroteFull,      \* the current call has put a merged transcript
    foundFull,      \* transcript resume's load_transcript_from_s3 returned
    storeAtStart,   \* <<chunks present, merged transcript>> when the call began
    prevInterrupted,\* chunk indices done by the previous call when it crashed
    calls,          \* number of engine calls started (also the call's timestamp)
    reported,           \* completed_chunks values passed to update_progress by this call
    \* ---- queue-metrics document (SpecMetrics)
    doc,            \* queue-stats.json: Some([minutes, jobs]), or None
    mpc,            \* client -> idle | read (between get and put)
    mread,          \* client -> the stats get_current_stats returned
    mdelta,         \* client -> <<minutes_delta, job_count_delta>> of its call
    serial,         \* the stats had every call that wrote run alone, in write order
    overlapped,     \* some update_stats ran while another was between get and put
    finished,       \* deltas of the update_stats calls that wrote, in write order
    lastWriter,     \* client whose update_stats wrote the stored document, or 0
    mops,           \* number of metric operations started
    \* ---- autoscaler sizing (SpecScaler)
    scaler,         \* "cron" (TranscriptionScaler) | "lambda" (scaling_lambda)
    min_instances,
    max_instances,
    pending_minutes,
    current_count,
    needed_instances,
    spc,            \* scaler position: idle | observed | calculated | scaled
    \* ---- one autoscaler run against the fleet (SpecFleet)
    instances,          \* get_running_instances(): sequence of instance records
    launch_configured,  \* security_group_id and key_name are set
    dry_run,            \* scale(dry_run)
    store_readable,     \* the get_object of queue-stats.json succeeded
    sqs_readable,       \* get_queue_attributes would succeed
    queue_depth,        \* ApproximateNumberOfMessages of the queue
    launched,           \* InstanceCount of each request_spot_instances call
    terminated,         \* InstanceIds of each terminate_instances call
    action,             \* result['action'] of the run
    \* ---- one worker's life from start to stop (SpecLifecycle)
    lkind,              \* "standard" | "enhanced" | "quick"
    clock,              \* time.time(), in units of the idle threshold's scale
    lpc,                \* check (loop top) | poll | processing | stopped
    idle_start,         \* self.idle_start: None or Some(time)
    shutdown_requested, \* self.shutdown_requested
    jobs_processed,     \* self.jobs_processed
    queued,             \* visible messages in the queue
    hidden,             \* messages left by a failed attempt, not yet visible
    arrived,            \* messages sent to the queue so far
    worker_status,      \* workers/<id>/status.json: None or Some(status)
    poll_since,         \* time since which the worker has polled without a message
    stop_reason,        \* none | idle | signal
    received_after_signal,  \* messages received after the shutdown signal
    last_heartbeat,     \* last_heartbeat of the status file: None or Some(time)
    status_jobs,        \* worker_status["jobs_processed"] in memory: None while the key is absent
    record_jobs,        \* jobs_processed of the stored status file: None while the key is absent
    acknowledged,       \* jobs this worker has processed and deleted from the queue
    acknowledged_at_write, \* acknowledged when the status file was last written
    \* ---- the producer (SpecProducer)
    sent,               \* estimated_duration_seconds of the messages sent, in order
    \* ---- one job's progress document under the enhanced worker (SpecProgress)
    ppos,               \* 0: no attempt running; k: about to write ProgressSteps[k]
    progress_status,    \* status of progress/<job_id>/status.json: None or Some(status)
    transcript_uploaded,\* the transcript is at s3_output_path
    attempt_ended,      \* how the last attempt ended: none | success | failure
    pattempts,          \* attempts started
    logs,               \* ProgressLogger.logs of the running attempt
    detailed_log,       \* progress/<job_id>/detailed_log.txt: None or Some(lines)
    \* ---- the fleet following demand (SpecDemand)
    fleet,              \* worker instances running
    done,               \* jobs of sent transcribed, their messages deleted
    requested           \* spot instances asked for that are not yet running

queueVars == <<now, kind, wpc, claimed, claimedAt, events, deleted, visibleAt, receives,
               decrements>>
engineVars == <<nChunks, modelOut, chunkStore, fullStore, fullGpuStore, epc, method,
                video_id, completed_segments, all_segments, chunkIdx, pendingResult,
                returned, invoked, wroteChunks, wroteFull, foundFull, storeAtStart,
                prevInterrupted, calls, reported>>
metricsVars == <<doc, mpc, mread, mdelta, serial, overlapped, finished, lastWriter, mops>>
fleetVars == <<instances, launch_configured, dry_run, store_readable, sqs_readable,
               queue_depth, launched, terminated, action>>
scalerVars == <<scaler, min_instances, max_instances, pending_minutes, current_count,
                needed_instances, spc, fleetVars>>
lifecycleVars == <<lkind, clock, lpc, idle_start, shutdown_requested, jobs_processed,
                   queued, hidden, arrived, worker_status, poll_since, stop_reason,
                   received_after_signal, last_heartbeat, status_jobs, record_jobs,
                   acknowledged, acknowledged_at_write>>
producerVars == <<sent>>
progressVars == <<ppos, progress_status, transcript_uploaded, attempt_ended, pattempts,
                  logs, detailed_log>>
demandVars == <<fleet, done, requested>>
workerVars == <<queueVars, lifecycleVars, producerVars, progressVars, demandVars>>
vars == <<workerVars, engineVars, metricsVars, scalerVars>>

Max(a, b) == IF a >= b THEN a ELSE b
Min(a, b) == IF a <= b THEN a ELSE b

\* An object-store key or a Python value that may be absent: None, or Some(x).
None == <<>>
Some(x) == <<x>>
Val(o) == o[1]

(***************************************************************************)
(* Queue-metrics document: queue_metrics.py                                *)
(***************************************************************************)

\* Bounds: concurrent clients (workers, producers) and operations they start.
NClients == 2
MaxMetricOps == 3

Clients == 1..NClients

\* Job durations in seconds handed to add_job / complete_job / remove_job.
\* 300 is the workers' default estimated_duration_seconds.
Durations == {60, 300}

\* Deltas handed to update_stats directly.
DirectMinutes == {-5, 5}
DirectJobs == {-1, 1}

\* seconds / 60.0: exact on the whole minutes of Durations.
ToMinutes(seconds) == seconds \div 60

\* get_current_stats: the stored document, or the default when it is missing.
DefaultStats == [minutes |-> 0, jobs |-> 0]
GetCurrentStats == IF doc = None THEN DefaultStats ELSE Val(doc)

\* update_stats without its floor.
MutUpdatedStatsNoFloor(cur, md, jd) ==
    [minutes |-> cur.minutes + md, jobs |-> cur.jobs + jd]

\* update_stats forgetting job_count.
MutUpdatedStatsDropJobs(cur, md, jd) ==
    [minutes |-> Max(0, cur.minutes + md), jobs |-> cur.jobs]

\* update_stats that writes back what it read.
MutUpdatedStatsIgnoreDelta(cur, md, jd) == cur

\* update_stats: the values computed from the stats it read.
UpdatedStats(cur, md, jd) ==
    [minutes |-> Max(0, cur.minutes + md), jobs |-> Max(0, cur.jobs + jd)]

\* What one call alone does to a value: the reference the races are measured against.
SerialApply(cur, md, jd) ==
    [minutes |-> IF cur.minutes + md < 0 THEN 0 ELSE cur.minutes + md,
     jobs |-> IF cur.jobs + jd < 0 THEN 0 ELSE cur.jobs + jd]

MetricsIdle ==
    /\ doc = None
    /\ mpc = [c \in Clients |-> "idle"]
    /\ mread = [c \in Clients |-> DefaultStats]
    /\ mdelta = [c \in Clients |-> <<0, 0>>]
    /\ serial = DefaultStats
    /\ overlapped = FALSE
    /\ finished = <<>>
    /\ lastWriter = 0
    /\ mops = 0

InitMetrics == MetricsIdle

\* update_stats up to its get_current_stats.
BeginUpdate(c, md, jd) ==
    /\ mpc[c] = "idle"
    /\ mops < MaxMetricOps
    /\ mops' = mops + 1
    /\ mread' = [mread EXCEPT ![c] = GetCurrentStats]
    /\ mdelta' = [mdelta EXCEPT ![c] = <<md, jd>>]
    /\ mpc' = [mpc EXCEPT ![c] = "read"]
    /\ overlapped' = (overlapped \/ \E o \in Clients : mpc[o] = "read")
    /\ UNCHANGED <<doc, serial, finished, lastWriter>>
    /\ UNCHANGED <<workerVars, engineVars, scalerVars>>

AddJob(c, seconds) == BeginUpdate(c, ToMinutes(seconds), 1)

CompleteJob(c, seconds) == BeginUpdate(c, -ToMinutes(seconds), -1)

RemoveJob(c, seconds) == BeginUpdate(c, -ToMinutes(seconds), -1)

UpdateStats(c, md, jd) == BeginUpdate(c, md, jd)

\* update_stats from the values it computed to its put_object.
UpdateStatsWrite(c) ==
    /\ mpc[c] = "read"
    /\ doc' = Some(UpdatedStats(mread[c], mdelta[c][1], mdelta[c][2]))
    /\ serial' = SerialApply(serial, mdelta[c][1], mdelta[c][2])
    /\ finished' = Append(finished, mdelta[c])
    /\ lastWriter' = c
    /\ mpc' = [mpc EXCEPT ![c] = "idle"]
    /\ UNCHANGED <<mread, mdelta, overlapped, mops>>
    /\ UNCHANGED <<workerVars, engineVars, scalerVars>>

\* update_stats when put_object raises: the error is re-raised, nothing is written.
UpdateStatsRaises(c) ==
    /\ mpc[c] = "read"
    /\ mpc' = [mpc EXCEPT ![c] = "idle"]
    /\ UNCHANGED <<doc, mread, mdelta, serial, overlapped, finished, lastWriter, mops>>
    /\ UNCHANGED <<workerVars, engineVars, scalerVars>>

\* reset_stats: one put_object of the zero document.
ResetStats(c) ==
    /\ mpc[c] = "idle"
    /\ mops < MaxMetricOps
    /\ mops' = mops + 1
    /\ doc' = Some(DefaultStats)
    /\ serial' = DefaultStats
    /\ finished' = <<>>
    /\ lastWriter' = 0
    /\ overlapped' = (overlapped \/ \E o \in Clients : mpc[o] = "read")
    /\ UNCHANGED <<mpc, mread, mdelta>>
    /\ UNCHANGED <<workerVars, engineVars, scalerVars>>

(***************************************************************************)
(* Chunked transcription engine: transcriber.py, transcriber_gpu_optimized *)
(***************************************************************************)

\* Bounds: chunks of the audio file, and engine calls made on the one job.
MaxChunks == 3
MaxCalls == 2

\* chunk_size, in seconds (Transcriber.__init__; the workers pass 30 too).
chunk_size == 30

Chunks == 0..(nChunks - 1)

\* What the opaque model may return for one chunk, in chunk-local time:
\* silence, or two segments.
Seg(s, e) == [start |-> s, end |-> e]
LocalOutputs == {<<>>, <<Seg(0, 10), Seg(10, 25)>>}

\* "Adjust timestamps for chunk position": every segment moved by i * chunk_size.
Shift(segs, i) ==
    [k \in 1..Len(segs) |->
        [start |-> segs[k].start + i * chunk_size,
         end |-> segs[k].end + i * chunk_size]]

\* The merge without its sort.
MutUnsorted(segs) == segs

\* sorted(all_segments, key=lambda x: x["start"]): stable, ascending by start.
RECURSIVE SortByStart(_)
SortByStart(segs) ==
    IF Len(segs) <= 1
    THEN segs
    ELSE LET rest == SortByStart(SubSeq(segs, 1, Len(segs) - 1))
             x == segs[Len(segs)]
             k == Cardinality({i \in 1..Len(rest) : rest[i].start <= x.start})
         IN  SubSeq(rest, 1, k) \o <<x>> \o SubSeq(rest, k + 1, Len(rest))

\* sorted(completed): the indices of a set in ascending order.
RECURSIVE SortedIndices(_)
SortedIndices(S) ==
    IF S = {}
    THEN <<>>
    ELSE LET m == CHOOSE x \in S : \A y \in S : x <= y
         IN  <<m>> \o SortedIndices(S \ {m})

StoredChunks == {i \in 0..(MaxChunks - 1) : chunkStore[i] # None}

\* get_completed_segments: the listed indices, or [] when the listing raises.
GetCompletedSegments(listOk) == IF listOk THEN SortedIndices(StoredChunks) ELSE <<>>

\* load_segment_from_s3: the stored segments, or None when the read raises.
LoadSegmentFromS3(i, readOk) ==
    IF readOk THEN chunkStore[i] ELSE None

\* load_transcript_from_s3: the stored transcript, or None when the key is
\* missing or the read raises.
LoadTranscriptFromS3(readOk) == IF readOk THEN fullStore ELSE None

\* A load that moves the recovered segments to their chunk's position again.
RECURSIVE MutLoadCompletedShifted(_, _)
MutLoadCompletedShifted(idxs, readable) ==
    IF idxs = <<>>
    THEN <<>>
    ELSE LET data == LoadSegmentFromS3(Head(idxs), Head(idxs) \in readable)
         IN  (IF data # None /\ Val(data) # <<>>
              THEN Shift(Val(data), Head(idxs))
              ELSE <<>>)
                 \o MutLoadCompletedShifted(Tail(idxs), readable)

\* resume_transcription, "First load all completed segments": those that load
\* are appended in index order, those that do not are passed over.
RECURSIVE LoadCompleted(_, _)
LoadCompleted(idxs, readable) ==
    IF idxs = <<>>
    THEN <<>>
    ELSE LET data == LoadSegmentFromS3(Head(idxs), Head(idxs) \in readable)
         IN  (IF data # None /\ Val(data) # <<>> THEN Val(data) ELSE <<>>)
                 \o LoadCompleted(Tail(idxs), readable)

\* final_result of the three entry points.
FinalResult(segs, by) ==
    [segments |-> SortByStart(segs), transcribed_at |-> calls, transcriber |-> by]

EngineIdle ==
    /\ nChunks = 0
    /\ modelOut = [i \in 0..(MaxChunks - 1) |-> <<>>]
    /\ chunkStore = [i \in 0..(MaxChunks - 1) |-> None]
    /\ fullStore = None
    /\ fullGpuStore = None
    /\ epc = "idle"
    /\ method = "none"
    /\ video_id = FALSE
    /\ completed_segments = <<>>
    /\ all_segments = <<>>
    /\ chunkIdx = 0
    /\ pendingResult = <<>>
    /\ returned = None
    /\ invoked = {}
    /\ wroteChunks = {}
    /\ wroteFull = FALSE
    /\ foundFull = None
    /\ storeAtStart = [chunks |-> {}, full |-> None]
    /\ prevInterrupted = {}
    /\ calls = 0
    /\ reported = <<>>

\* One job: an audio file of nChunks chunks, the model's answer for each, and
\* the ChunkResults an earlier run left in the bucket (any subset, each as the
\* engine writes it). No merged transcript exists yet.
InitEngine ==
    /\ nChunks \in 1..MaxChunks
    /\ modelOut \in [0..(MaxChunks - 1) -> LocalOutputs]
    /\ \A i \in 0..(MaxChunks - 1) : i >= nChunks => modelOut[i] = <<>>
    /\ \E S \in SUBSET Chunks :
           chunkStore = [i \in 0..(MaxChunks - 1) |->
                            IF i \in S THEN Some(Shift(modelOut[i], i)) ELSE None]
    /\ fullStore = None
    /\ fullGpuStore = None
    /\ epc = "idle"
    /\ method = "none"
    /\ video_id = FALSE
    /\ completed_segments = <<>>
    /\ all_segments = <<>>
    /\ chunkIdx = 0
    /\ pendingResult = <<>>
    /\ returned = None
    /\ invoked = {}
    /\ wroteChunks = {}
    /\ wroteFull = FALSE
    /\ foundFull = None
    /\ storeAtStart = [chunks |-> {}, full |-> None]
    /\ prevInterrupted = {}
    /\ calls = 0
    /\ reported = <<>>

EngineAtRest == epc \in {"idle", "done", "failed"}

\* Entry of a call: the per-call locals, and what the bucket held.
BeginCall(m, vid) ==
    /\ EngineAtRest
    /\ calls < MaxCalls
    /\ calls' = calls + 1
    /\ method' = m
    /\ video_id' = vid
    /\ all_segments' = <<>>
    /\ chunkIdx' = 0
    /\ pendingResult' = <<>>
    /\ invoked' = {}
    /\ wroteChunks' = {}
    /\ wroteFull' = FALSE
    /\ storeAtStart' = [chunks |-> StoredChunks, full |-> fullStore]
    /\ prevInterrupted' = IF epc = "idle" THEN prevInterrupted ELSE {}
    /\ UNCHANGED <<nChunks, modelOut, chunkStore, fullStore, fullGpuStore>>
    /\ UNCHANGED <<workerVars, metricsVars, scalerVars>>

\* process_job / process_job_with_progress: transcribe_audio(local_audio_path),
\* with no video_id, on the transcriber the worker selected at start-up.
\* load_model or segment_audio may raise.
ProcessJobTranscribe(gpu, ok) ==
    /\ BeginCall(IF gpu THEN "gpu_transcribe_audio" ELSE "transcribe_audio", FALSE)
    /\ epc' = IF ok THEN "loop" ELSE "failed"
    /\ completed_segments' = <<>>
    /\ foundFull' = None
    /\ returned' = None
    /\ reported' = <<>>

\* transcribe_audio(audio_file, job_id, job_tracker, video_id) called with a
\* video_id and a job tracker: after segment_audio it reports 0 of
\* len(chunk_files) chunks.
TranscribeAudio(gpu, ok) ==
    /\ BeginCall(IF gpu THEN "gpu_transcribe_audio" ELSE "transcribe_audio", TRUE)
    /\ epc' = IF ok THEN "loop" ELSE "failed"
    /\ completed_segments' = <<>>
    /\ foundFull' = None
    /\ returned' = None
    /\ reported' = IF ok THEN <<0>> ELSE <<>>

\* resume_transcription up to "if full_transcript: return full_transcript".
ResumeLoadTranscript(readOk) ==
    /\ BeginCall("resume_transcription", TRUE)
    /\ foundFull' = LoadTranscriptFromS3(readOk)
    /\ completed_segments' = <<>>
    /\ reported' = <<>>
    /\ IF LoadTranscriptFromS3(readOk) # None
       THEN /\ epc' = "done"
            /\ returned' = LoadTranscriptFromS3(readOk)
       ELSE /\ epc' = "listed"
            /\ returned' = None

\* resume_transcription from get_completed_segments to the end of "First load
\* all completed segments". load_model or segment_audio may raise.
ResumeLoadCompleted(listOk, setupOk, readable) ==
    /\ epc = "listed"
    /\ completed_segments' = GetCompletedSegments(listOk)
    /\ IF setupOk
       THEN /\ epc' = "loop"
            /\ all_segments' = LoadCompleted(GetCompletedSegments(listOk), readable)
            /\ reported' = <<Len(GetCompletedSegments(listOk))>>
       ELSE /\ epc' = "failed"
            /\ all_segments' = <<>>
            /\ UNCHANGED reported
    /\ UNCHANGED <<nChunks, modelOut, chunkStore, fullStore, fullGpuStore, method,
                   video_id, chunkIdx, pendingResult, returned, invoked, wroteChunks,
                   wroteFull, foundFull, storeAtStart, prevInterrupted, calls>>
    /\ UNCHANGED <<workerVars, metricsVars, scalerVars>>

\* A handler that hands back what was transcribed before the failure.
MutReturnPartial(partial) == Some(FinalResult(partial, "standard"))

\* "except Exception as e: ... raise TranscriptionError(error_msg)": the
\* segments collected so far are dropped and the caller gets no value.
RaiseTranscriptionError(partial) == None

InCompleted(i) == \E k \in 1..Len(completed_segments) : completed_segments[k] = i

\* resume_transcription: "if i in completed_segments: continue".
SkipCompleted ==
    /\ epc = "loop"
    /\ method = "resume_transcription"
    /\ chunkIdx < nChunks
    /\ InCompleted(chunkIdx)
    /\ chunkIdx' = chunkIdx + 1
    /\ UNCHANGED <<nChunks, modelOut, chunkStore, fullStore, fullGpuStore, epc, method,
                   video_id, completed_segments, all_segments, pendingResult, returned,
                   invoked, wroteChunks, wroteFull, foundFull, storeAtStart,
                   prevInterrupted, calls>>
    /\ UNCHANGED reported
    /\ UNCHANGED <<workerVars, metricsVars, scalerVars>>

\* The loop body of transcribe_audio and of resume_transcription up to
\* all_segments.extend: run the model on chunk i, align, shift by i * chunk_size.
\* The model or the alignment may raise.
TranscribeChunk(ok) ==
    /\ epc = "loop"
    /\ method \in {"transcribe_audio", "resume_transcription"}
    /\ chunkIdx < nChunks
    /\ method = "resume_transcription" => ~InCompleted(chunkIdx)
    /\ invoked' = invoked \cup {chunkIdx}
    /\ IF ok
       THEN /\ pendingResult' = Shift(modelOut[chunkIdx], chunkIdx)
            /\ all_segments' = all_segments \o Shift(modelOut[chunkIdx], chunkIdx)
            /\ epc' = "persist"
            /\ UNCHANGED returned
       ELSE /\ epc' = "failed"
            /\ returned' = RaiseTranscriptionError(all_segments)
            /\ UNCHANGED <<pendingResult, all_segments>>
    /\ UNCHANGED <<nChunks, modelOut, chunkStore, fullStore, fullGpuStore, method,
                   video_id, completed_segments, chunkIdx, wroteChunks,
                   wroteFull, foundFull, storeAtStart, prevInterrupted, calls>>
    /\ UNCHANGED reported
    /\ UNCHANGED <<workerVars, metricsVars, scalerVars>>

\* transcribe_audio: "if self.s3_bucket and video_id"; resume_transcription:
\* "if self.s3_bucket". The workers always configure the bucket.
PersistsChunks ==
    \/ method = "resume_transcription"
    \/ method = "transcribe_audio" /\ video_id

\* "Update progress" at the end of the loop body of chunk i: the value of
\* completed_chunks handed to the job tracker.
CompletedChunksAfter(i) ==
    IF method = "resume_transcription"
    THEN Len(completed_segments) + i + 1
    ELSE i + 1

\* The rest of the loop body: put_object of chunk i's segments when the call
\* persists, the progress report when it has a job tracker (the calls that
\* persist), then the next i. put_object may raise.
PersistChunk(ok) ==
    /\ epc = "persist"
    /\ IF PersistsChunks
       THEN IF ok
            THEN /\ chunkStore' = [chunkStore EXCEPT ![chunkIdx] = Some(pendingResult)]
                 /\ wroteChunks' = wroteChunks \cup {chunkIdx}
                 /\ reported' = Append(reported, CompletedChunksAfter(chunkIdx))
                 /\ chunkIdx' = chunkIdx + 1
                 /\ epc' = "loop"
            ELSE /\ epc' = "failed"
                 /\ UNCHANGED <<chunkStore, wroteChunks, chunkIdx, reported>>
       ELSE /\ ok
            /\ chunkIdx' = chunkIdx + 1
            /\ epc' = "loop"
            /\ UNCHANGED <<chunkStore, wroteChunks, reported>>
    /\ UNCHANGED <<nChunks, modelOut, fullStore, fullGpuStore, method, video_id,
                   completed_segments, all_segments, pendingResult, returned, invoked,
                   wroteFull, foundFull, storeAtStart, prevInterrupted, calls>>
    /\ UNCHANGED <<workerVars, metricsVars, scalerVars>>

\* "Combine results" and "Save complete transcript" of transcribe_audio and
\* resume_transcription. put_object may raise.
Finish(ok) ==
    /\ epc = "loop"
    /\ method \in {"transcribe_audio", "resume_transcription"}
    /\ chunkIdx = nChunks
    /\ IF PersistsChunks
       THEN IF ok
            THEN /\ fullStore' = Some(FinalResult(all_segments, "standard"))
                 /\ wroteFull' = TRUE
                 /\ returned' = Some(FinalResult(all_segments, "standard"))
                 /\ epc' = "done"
            ELSE /\ epc' = "failed"
                 /\ UNCHANGED <<fullStore, wroteFull, returned>>
       ELSE /\ ok
            /\ returned' = Some(FinalResult(all_segments, "standard"))
            /\ epc' = "done"
            /\ UNCHANGED <<fullStore, wroteFull>>
    /\ UNCHANGED <<nChunks, modelOut, chunkStore, fullGpuStore, method, video_id,
                   completed_segments, all_segments, chunkIdx, pendingResult, invoked,
                   wroteChunks, foundFull, storeAtStart, prevInterrupted, calls>>
    /\ UNCHANGED reported
    /\ UNCHANGED <<workerVars, metricsVars, scalerVars>>

\* GPUOptimizedTranscriber.transcribe_audio, one chunk of a batch: run the
\* model; when it returned segments, align, shift and extend. Nothing is put.
\* A batch holds min(8, chunks) chunks, which is all of them here, and the
\* progress report follows the batch.
GpuTranscribeChunk(ok) ==
    /\ epc = "loop"
    /\ method = "gpu_transcribe_audio"
    /\ chunkIdx < nChunks
    /\ invoked' = invoked \cup {chunkIdx}
    /\ IF ok
       THEN /\ all_segments' =
                   IF modelOut[chunkIdx] # <<>>
                   THEN all_segments \o Shift(modelOut[chunkIdx], chunkIdx)
                   ELSE all_segments
            /\ reported' = IF video_id /\ chunkIdx + 1 = nChunks
                           THEN Append(reported, nChunks)
                           ELSE reported
            /\ chunkIdx' = chunkIdx + 1
            /\ epc' = "loop"
       ELSE /\ epc' = "failed"
            /\ UNCHANGED <<all_segments, chunkIdx, reported>>
    /\ UNCHANGED <<nChunks, modelOut, chunkStore, fullStore, fullGpuStore, method,
                   video_id, completed_segments, pendingResult, returned, wroteChunks,
                   wroteFull, foundFull, storeAtStart, prevInterrupted, calls>>
    /\ UNCHANGED <<workerVars, metricsVars, scalerVars>>

\* GPUOptimizedTranscriber.transcribe_audio, "Combine results" and the put of
\* full_transcript_gpu.json when a video_id was given.
GpuFinish(ok) ==
    /\ epc = "loop"
    /\ method = "gpu_transcribe_audio"
    /\ chunkIdx = nChunks
    /\ IF video_id
       THEN IF ok
            THEN /\ fullGpuStore' = Some(FinalResult(all_segments, "gpu_optimized"))
                 /\ wroteFull' = TRUE
                 /\ returned' = Some(FinalResult(all_segments, "gpu_optimized"))
                 /\ epc' = "done"
            ELSE /\ epc' = "failed"
                 /\ UNCHANGED <<fullGpuStore, wroteFull, returned>>
       ELSE /\ ok
            /\ returned' = Some(FinalResult(all_segments, "gpu_optimized"))
            /\ epc' = "done"
            /\ UNCHANGED <<fullGpuStore, wroteFull>>
    /\ UNCHANGED <<nChunks, modelOut, chunkStore, fullStore, method, video_id,
                   completed_segments, all_segments, chunkIdx, pendingResult, invoked,
                   wroteChunks, foundFull, storeAtStart, prevInterrupted, calls>>
    /\ UNCHANGED reported
    /\ UNCHANGED <<workerVars, metricsVars, scalerVars>>

\* The worker process dies (crash, spot preemption) inside the engine: only the
\* bucket survives. prevInterrupted keeps the chunks whose loop body had finished.
EngineCrash ==
    /\ epc \in {"listed", "loop", "persist"}
    /\ epc' = "idle"
    /\ prevInterrupted' = 0..(chunkIdx - 1)
    /\ UNCHANGED <<nChunks, modelOut, chunkStore, fullStore, fullGpuStore, method,
                   video_id, completed_segments, all_segments, chunkIdx, pendingResult,
                   returned, invoked, wroteChunks, wroteFull, foundFull, storeAtStart,
                   calls>>
    /\ UNCHANGED reported
    /\ UNCHANGED <<workerVars, metricsVars, scalerVars>>

NextEngine ==
    \/ \E gpu \in BOOLEAN, ok \in BOOLEAN : ProcessJobTranscribe(gpu, ok)
    \/ \E gpu \in BOOLEAN, ok \in BOOLEAN : TranscribeAudio(gpu, ok)
    \/ \E readOk \in BOOLEAN : ResumeLoadTranscript(readOk)
    \/ \E listOk \in BOOLEAN, setupOk \in BOOLEAN, readable \in SUBSET StoredChunks :
           ResumeLoadCompleted(listOk, setupOk, readable)
    \/ SkipCompleted
    \/ \E ok \in BOOLEAN : TranscribeChunk(ok)
    \/ \E ok \in BOOLEAN : PersistChunk(ok)
    \/ \E ok \in BOOLEAN : Finish(ok)
    \/ \E ok \in BOOLEAN : GpuTranscribeChunk(ok)
    \/ \E ok \in BOOLEAN : GpuFinish(ok)
    \/ EngineCrash

(***************************************************************************)
(* Autoscaler sizing: scaling_cron.py and scaling_lambda.py                *)
(***************************************************************************)

\* Bounds of the inputs drawn for calculate_needed_instances.
MaxPending == 660
MaxCurrent == 11
MaxCfgInstances == 3

\* scaling_cron.py, TranscriptionScaler.__init__
minutes_per_instance_hour == 60
scale_up_threshold == 30
scale_down_threshold == 10

\* scaling_lambda.py module configuration
MIN_INSTANCES == 0
MAX_INSTANCES == 10
MINUTES_PER_INSTANCE_HOUR == 60
SCALE_UP_THRESHOLD == 30
SCALE_DOWN_THRESHOLD == 10

\* math.ceil(a / b) for b > 0. pending_minutes is a float in the code; whole
\* minutes reach every branch (<= 0, < 10, 10..30, > 30, each multiple of 60).
Ceil(a, b) == IF a % b = 0 THEN a \div b ELSE (a \div b) + 1

\* calculate_needed_instances sizing by the work alone, without the thresholds.
MutCalculateByWorkOnly(pending, current, minI, maxI) ==
    IF pending <= 0
    THEN 0
    ELSE Max(minI, Min(maxI, Ceil(pending, minutes_per_instance_hour)))

\* calculate_needed_instances scaling up from the threshold itself.
MutCalculateScaleUpAtThreshold(pending, current, minI, maxI) ==
    IF pending <= 0
    THEN 0
    ELSE LET byWork == Ceil(pending, minutes_per_instance_hour)
             byThreshold ==
                 IF pending >= scale_up_threshold
                 THEN Max(byWork, current + 1)
                 ELSE IF pending < scale_down_threshold /\ current > 0
                      THEN Min(byWork, current - 1)
                      ELSE current
         IN  Max(minI, Min(maxI, byThreshold))

\* TranscriptionScaler.calculate_needed_instances
CalculateNeededInstances(pending, current, minI, maxI) ==
    IF pending <= 0
    THEN 0
    ELSE LET byWork == Ceil(pending, minutes_per_instance_hour)
             byThreshold ==
                 IF pending > scale_up_threshold
                 THEN Max(byWork, current + 1)
                 ELSE IF pending < scale_down_threshold /\ current > 0
                      THEN Min(byWork, current - 1)
                      ELSE current
         IN  Max(minI, Min(maxI, byThreshold))

\* scaling_lambda.calculate_needed_instances
LambdaCalculateNeededInstances(pending, current) ==
    IF pending <= 0
    THEN 0
    ELSE LET byWork == Ceil(pending, MINUTES_PER_INSTANCE_HOUR)
             byThreshold ==
                 IF pending > SCALE_UP_THRESHOLD
                 THEN Max(byWork, current + 1)
                 ELSE IF pending < SCALE_DOWN_THRESHOLD /\ current > 0
                      THEN Min(byWork, current - 1)
                      ELSE current
         IN  Max(MIN_INSTANCES, Min(MAX_INSTANCES, byThreshold))

\* No autoscaler run has touched the fleet.
FleetIdle ==
    /\ instances = <<>>
    /\ launch_configured = TRUE
    /\ dry_run = FALSE
    /\ store_readable = TRUE
    /\ sqs_readable = TRUE
    /\ queue_depth = 0
    /\ launched = <<>>
    /\ terminated = <<>>
    /\ action = "none"

ScalerIdle ==
    /\ FleetIdle
    /\ scaler = "cron"
    /\ min_instances = 0
    /\ max_instances = 0
    /\ pending_minutes = 0
    /\ current_count = 0
    /\ needed_instances = -1
    /\ spc = "idle"

\* The configuration an autoscaler is started with: --min-instances and
\* --max-instances for the cron script, the module constants for the lambda.
InitScaler ==
    /\ FleetIdle
    /\ \/ /\ scaler = "cron"
          /\ max_instances \in 0..MaxCfgInstances
          /\ min_instances \in 0..max_instances
       \/ /\ scaler = "lambda"
          /\ min_instances = MIN_INSTANCES
          /\ max_instances = MAX_INSTANCES
    /\ pending_minutes = 0
    /\ current_count = 0
    /\ needed_instances = -1
    /\ spc = "idle"

\* scale() / lambda_handler: read the metrics and count the fleet.
ScalerObserve ==
    /\ spc = "idle"
    /\ pending_minutes' \in (-1)..MaxPending
    /\ current_count' \in 0..MaxCurrent
    /\ needed_instances' = -1
    /\ spc' = "observed"
    /\ UNCHANGED <<scaler, min_instances, max_instances, fleetVars>>
    /\ UNCHANGED <<workerVars, engineVars, metricsVars>>

\* scale() / lambda_handler: needed_instances = calculate_needed_instances(...)
ScalerCalculate ==
    /\ spc = "observed"
    /\ needed_instances' =
           IF scaler = "cron"
           THEN CalculateNeededInstances(pending_minutes, current_count,
                                         min_instances, max_instances)
           ELSE LambdaCalculateNeededInstances(pending_minutes, current_count)
    /\ spc' = "calculated"
    /\ UNCHANGED <<scaler, min_instances, max_instances, pending_minutes, current_count,
                   fleetVars>>
    /\ UNCHANGED <<workerVars, engineVars, metricsVars>>

(***************************************************************************)
(* One autoscaler run: scale() of scaling_cron.py, lambda_handler of       *)
(* scaling_lambda.py                                                       *)
(***************************************************************************)

\* Bounds: instances the fleet listing returns, messages the queue reports.
MaxFleet == 3
MaxQueueDepth == 2

\* get_queue_metrics_from_sqs: "Estimate 5 minutes per job".
sqs_minutes_per_job == 5

\* total_minutes_pending values found in the stored document: none, below the
\* scale-down threshold, between the thresholds, above the scale-up threshold
\* with one and with two instance-hours of work.
StoredMinutes == {0, 5, 10, 20, 30, 45, 65}

LaunchTimes == {1, 2}

\* What get_running_instances can return: up to MaxFleet instances in the
\* order describe_instances lists them; [] also when the listing raises.
InstanceLists ==
    UNION {{[i \in 1..n |-> [InstanceId |-> i, LaunchTime |-> lt[i]]] :
               lt \in [1..n -> LaunchTimes]} : n \in 0..MaxFleet}

\* TranscriptionScaler.get_queue_metrics_from_sqs
GetQueueMetricsFromSqs(sqsOk, depth) ==
    IF sqsOk THEN depth * sqs_minutes_per_job ELSE 0

\* TranscriptionScaler.get_queue_metrics: total_minutes_pending
GetQueueMetrics(storeOk, stored, sqsOk, depth) ==
    IF storeOk THEN stored ELSE GetQueueMetricsFromSqs(sqsOk, depth)

\* scaling_lambda.get_queue_metrics: total_minutes_pending
LambdaGetQueueMetrics(storeOk, stored) ==
    IF storeOk THEN stored ELSE 0

\* terminate_excess_instances leaving the list in the order it was given.
MutKeepOrder(insts) == insts

\* instances.sort(key=lambda x: x['LaunchTime'], reverse=True): a stable sort,
\* newest first.
RECURSIVE SortNewestFirst(_)
SortNewestFirst(insts) ==
    IF Len(insts) <= 1
    THEN insts
    ELSE LET rest == SortNewestFirst(SubSeq(insts, 1, Len(insts) - 1))
             x == insts[Len(insts)]
             k == Cardinality({i \in 1..Len(rest) : rest[i].LaunchTime >= x.LaunchTime})
         IN  SubSeq(rest, 1, k) \o <<x>> \o SubSeq(rest, k + 1, Len(rest))

\* terminate_excess_instances: the InstanceIds handed to terminate_instances.
InstancesToTerminate(insts, target_count) ==
    LET sorted == SortNewestFirst(insts)
    IN  [i \in 1..(Len(insts) - target_count) |-> sorted[i].InstanceId]

\* The configuration and the surroundings of one run. The lambda's security
\* group and key name are module constants and it has no dry run.
InitFleet ==
    /\ \/ /\ scaler = "cron"
          /\ max_instances \in 0..MaxCfgInstances
          /\ min_instances \in 0..max_instances
          /\ launch_configured \in BOOLEAN
          /\ dry_run \in BOOLEAN
       \/ /\ scaler = "lambda"
          /\ min_instances = MIN_INSTANCES
          /\ max_instances = MAX_INSTANCES
          /\ launch_configured = TRUE
          /\ dry_run = FALSE
    /\ instances = <<>>
    /\ store_readable = TRUE
    /\ sqs_readable = TRUE
    /\ queue_depth = 0
    /\ launched = <<>>
    /\ terminated = <<>>
    /\ action = "none"
    /\ pending_minutes = 0
    /\ current_count = 0
    /\ needed_instances = -1
    /\ spc = "idle"

\* scale() / lambda_handler: get_queue_metrics, then get_running_instances.
FleetObserve(storeOk, stored, sqsOk, depth, insts) ==
    /\ spc = "idle"
    /\ store_readable' = storeOk
    /\ sqs_readable' = sqsOk
    /\ queue_depth' = depth
    /\ pending_minutes' =
           IF scaler = "cron"
           THEN GetQueueMetrics(storeOk, stored, sqsOk, depth)
           ELSE LambdaGetQueueMetrics(storeOk, stored)
    /\ instances' = insts
    /\ current_count' = Len(insts)
    /\ needed_instances' = -1
    /\ spc' = "observed"
    /\ UNCHANGED <<scaler, min_instances, max_instances, launch_configured, dry_run,
                   launched, terminated, action>>
    /\ UNCHANGED <<workerVars, engineVars, metricsVars>>

\* scale() / lambda_handler from "Scale up or down as needed" to the return:
\* launch_spot_instance asks for nothing when the security group or the key
\* name is missing; terminate_excess_instances sorts the list in place.
Scale ==
    /\ spc = "calculated"
    /\ spc' = "scaled"
    /\ IF needed_instances > current_count
       THEN /\ action' = "scale_up"
            /\ launched' = IF ~dry_run /\ launch_configured
                           THEN <<needed_instances - current_count>>
                           ELSE <<>>
            /\ UNCHANGED <<terminated, instances>>
       ELSE IF needed_instances < current_count
            THEN /\ action' = "scale_down"
                 /\ terminated' = IF ~dry_run
                                  THEN <<InstancesToTerminate(instances, needed_instances)>>
                                  ELSE <<>>
                 /\ instances' = IF ~dry_run THEN SortNewestFirst(instances) ELSE instances
                 /\ UNCHANGED launched
            ELSE /\ action' = "no_change"
                 /\ UNCHANGED <<launched, terminated, instances>>
    /\ UNCHANGED <<scaler, min_instances, max_instances, pending_minutes, current_count,
                   needed_instances, launch_configured, dry_run, store_readable,
                   sqs_readable, queue_depth>>
    /\ UNCHANGED <<workerVars, engineVars, metricsVars>>

(***************************************************************************)
(* Worker loops and the message queue: transcription_worker.py,            *)
(* transcription_worker_enhanced.py, quick_worker.py                       *)
(***************************************************************************)

\* Bounds: worker processes, messages in the queue, deliveries of one message.
NWorkers == 2
NMessages == 1
MaxReceives == 2

Workers == 1..NWorkers
Messages == 1..NMessages
Kinds == {"standard", "enhanced", "quick"}

\* VisibilityTimeout of each run loop's receive_message, in seconds.
VisibilityStandard == 1800
VisibilityEnhanced == 3600
VisibilityQuick == 300

\* A receive_message that asks for no visibility window.
MutVisibilityTimeoutNone(k) == 0

\* The window worker kind k requests when it receives.
VisibilityTimeout(k) ==
    CASE k = "standard" -> VisibilityStandard
      [] k = "enhanced" -> VisibilityEnhanced
      [] k = "quick" -> VisibilityQuick

\* Where one attempt of process_job can fail.  The standard and the enhanced
\* worker load the model inside the attempt (Transcriber.transcribe_audio
\* calls load_model; process_job_with_progress calls it itself); the quick
\* worker loads it in __init__, before its loop.
FailPoints == {"none", "download", "load_model", "engine", "upload", "metrics", "cleanup"}

LoadsModelInAttempt(k) == k \in {"standard", "enhanced"}

\* TranscriptionWorker.process_job: what one attempt does, in order, when it
\* fails at failAt. A TranscriptionError is handled by the inner except, anything
\* else by the outer one; both call remove_job and return False.
StandardAttempt(failAt) ==
    CASE failAt = "download" -> <<"remove_job", "return_false">>
      [] failAt = "load_model" ->
             <<"download", "load_model_raised", "remove_job", "return_false">>
      [] failAt = "engine" -> <<"download", "remove_job", "return_false">>
      [] failAt = "upload" -> <<"download", "transcribe", "remove_job", "return_false">>
      [] failAt = "metrics" ->
             <<"download", "transcribe", "upload", "complete_job_raised", "remove_job",
               "return_false">>
      [] failAt = "cleanup" ->
             <<"download", "transcribe", "upload", "complete_job", "remove_job",
               "return_false">>
      [] failAt = "none" ->
             <<"download", "transcribe", "upload", "complete_job", "return_true">>

\* EnhancedTranscriptionWorker.process_job_with_progress: progress updates never
\* raise; the queue metrics are not touched; every failure returns False;
\* jobs_processed is incremented just before "return True".
EnhancedAttempt(failAt) ==
    CASE failAt = "download" -> <<"return_false">>
      [] failAt = "load_model" -> <<"download", "load_model_raised", "return_false">>
      [] failAt = "engine" -> <<"download", "return_false">>
      [] failAt = "upload" -> <<"download", "transcribe", "return_false">>
      [] failAt = "cleanup" -> <<"download", "transcribe", "upload", "return_false">>
      [] OTHER -> <<"download", "transcribe", "upload", "jobs_processed", "return_true">>

\* QuickTranscriptionWorker.process_job: one try block, every failure returns False.
QuickAttempt(failAt) ==
    CASE failAt = "download" -> <<"return_false">>
      [] failAt = "engine" -> <<"download", "return_false">>
      [] failAt = "upload" -> <<"download", "transcribe", "return_false">>
      [] failAt = "cleanup" -> <<"download", "transcribe", "upload", "return_false">>
      [] OTHER -> <<"download", "transcribe", "upload", "return_true">>

AttemptEvents(k, failAt) ==
    CASE k = "standard" -> StandardAttempt(failAt)
      [] k = "enhanced" -> EnhancedAttempt(failAt)
      [] k = "quick" -> QuickAttempt(failAt)

Occurs(e, log) == \E i \in 1..Len(log) : log[i] = e

HasEvent(w, e) == Occurs(e, events[w])

\* complete_job and remove_job calls of an attempt that returned: each is an
\* update_stats(minutes_delta=-minutes, job_count_delta=-1).
MetricsDecrements(attempt) ==
    Cardinality({i \in 1..Len(attempt) : attempt[i] \in {"complete_job", "remove_job"}})

\* A run loop that deletes whatever process_job returned.
MutDeleteAlways(attempt) == TRUE

\* run(): "if success:" guards delete_message.
Success(attempt) == Occurs("return_true", attempt)

(***************************************************************************)
(* The producer: scripts/send_to_queue.py                                  *)
(***************************************************************************)

\* Jobs sent in one behaviour.
MaxSent == 3

ProducerIdle == sent = <<>>

\* main(): an invalid S3 path exits before anything is sent; otherwise one
\* send_message, and an exception from it exits with status 1.  The queue
\* metrics document is neither read nor written.
SendToQueue(seconds, valid, sendOk) ==
    /\ Len(sent) < MaxSent
    /\ sent' = IF valid /\ sendOk THEN Append(sent, seconds) ELSE sent
    /\ UNCHANGED <<queueVars, lifecycleVars, progressVars, demandVars, engineVars,
                   metricsVars, scalerVars>>

\* An autoscaler run reads the backlog the producer left: the metrics
\* document and, for the fallback, the depth of the queue.
ObserveBacklog(storeOk, sqsOk) ==
    FleetObserve(storeOk, GetCurrentStats.minutes, sqsOk, Len(sent), <<>>)

NextProducer ==
    \/ \E seconds \in Durations, valid \in BOOLEAN, sendOk \in BOOLEAN :
           SendToQueue(seconds, valid, sendOk)
    \/ \E storeOk \in BOOLEAN, sqsOk \in BOOLEAN : ObserveBacklog(storeOk, sqsOk)

(***************************************************************************)
(* The job's progress document: process_job_with_progress, ProgressLogger  *)
(***************************************************************************)

\* Attempts made on the one job (the message comes back after a failure).
MaxAttempts == 2

\* The statuses process_job_with_progress writes on its way to success, in order.
ProgressSteps ==
    <<"STARTED", "DOWNLOADING", "DOWNLOADED", "PREPARING", "MODEL_LOADING",
      "MODEL_READY", "TRANSCRIBING", "TRANSCRIBED", "SAVING", "UPLOADING",
      "COMPLETED">>

\* ProgressLogger.complete: the status it hands to update.
Complete(success) == IF success THEN "COMPLETED" ELSE "FAILED"

\* The operation that follows the write of ProgressSteps[k] and may raise:
\* the download, os.path.getsize, load_model, transcribe_audio, the local
\* save, the upload, and the removal of the local files after COMPLETED.
MayRaiseAfter(k) ==
    ProgressSteps[k] \in {"DOWNLOADING", "DOWNLOADED", "MODEL_LOADING", "TRANSCRIBING",
                          "SAVING", "UPLOADING", "COMPLETED"}

\* ProgressLogger.update: put_object of the new document; an exception is
\* printed and swallowed, and the document keeps what it held.
Update(status, putOk) == IF putOk THEN Some(status) ELSE progress_status

\* ProgressLogger.update, log_entry: the line carries the time of the write,
\* so lines of different attempts differ.
LogEntry(status) == [attempt |-> pattempts, status |-> status]

\* ProgressLogger.update, "Write detailed log": put_object of all the lines
\* this logger has collected, after the put of the document and in the same
\* try; when either raises, the stored log keeps what it held.
WriteDetailedLog(lines, putOk, logOk) ==
    IF putOk /\ logOk THEN Some(lines) ELSE detailed_log

ProgressIdle ==
    /\ ppos = 0
    /\ progress_status = None
    /\ transcript_uploaded = FALSE
    /\ attempt_ended = "none"
    /\ pattempts = 0
    /\ logs = <<>>
    /\ detailed_log = None

\* process_job_with_progress up to the ProgressLogger: a message body that
\* does not parse ends the attempt in the outer handler, which writes nothing;
\* otherwise a new ProgressLogger is made, with no lines.
BeginAttempt(parseOk) ==
    /\ ppos = 0
    /\ pattempts < MaxAttempts
    /\ pattempts' = pattempts + 1
    /\ ppos' = IF parseOk THEN 1 ELSE 0
    /\ attempt_ended' = IF parseOk THEN "none" ELSE "failure"
    /\ logs' = IF parseOk THEN <<>> ELSE logs
    /\ UNCHANGED <<progress_status, transcript_uploaded, detailed_log>>
    /\ UNCHANGED <<queueVars, lifecycleVars, producerVars, demandVars, engineVars,
                   metricsVars, scalerVars>>

\* One progress write and the operation after it.  The download is outside
\* the inner try: when it raises, the outer handler returns False and writes
\* nothing.  Any later exception reaches the inner handler, which writes
\* status ERROR and returns False.  The last write is complete(True).
ProgressStep(putOk, logOk, opOk, errPutOk) ==
    /\ ppos \in 1..Len(ProgressSteps)
    /\ opOk \/ MayRaiseAfter(ppos)
    /\ putOk \/ logOk      \* the log's put is not reached when the document's raises
    /\ LET status == IF ppos = Len(ProgressSteps) THEN Complete(TRUE)
                     ELSE ProgressSteps[ppos]
           written == Update(status, putOk)
           lines == Append(logs, LogEntry(status))
           logged == WriteDetailedLog(lines, putOk, logOk)
           handled == ~opOk /\ ProgressSteps[ppos] # "DOWNLOADING"
       IN  /\ transcript_uploaded' =
                  (transcript_uploaded \/ (ProgressSteps[ppos] = "UPLOADING" /\ opOk))
           /\ logs' = IF handled THEN Append(lines, LogEntry("ERROR")) ELSE lines
           /\ detailed_log' = IF handled /\ errPutOk /\ logOk
                              THEN Some(Append(lines, LogEntry("ERROR")))
                              ELSE logged
           /\ IF opOk
              THEN /\ progress_status' = written
                   /\ ppos' = IF ppos = Len(ProgressSteps) THEN 0 ELSE ppos + 1
                   /\ attempt_ended' = IF ppos = Len(ProgressSteps) THEN "success"
                                       ELSE "none"
              ELSE /\ progress_status' =
                          IF ProgressSteps[ppos] = "DOWNLOADING" THEN written
                          ELSE IF errPutOk THEN Some("ERROR") ELSE written
                   /\ ppos' = 0
                   /\ attempt_ended' = "failure"
    /\ UNCHANGED pattempts
    /\ UNCHANGED <<queueVars, lifecycleVars, producerVars, demandVars, engineVars,
                   metricsVars, scalerVars>>

NextProgress ==
    \/ \E parseOk \in BOOLEAN : BeginAttempt(parseOk)
    \/ \E putOk \in BOOLEAN, logOk \in BOOLEAN, opOk \in BOOLEAN, errPutOk \in BOOLEAN :
           ProgressStep(putOk, logOk, opOk, errPutOk)

(***************************************************************************)
(* The fleet following demand: producer, autoscaler runs and workers       *)
(***************************************************************************)

\* Estimated durations of the jobs sent: 5 minutes, inside the band between
\* the thresholds, and 45 minutes, above scale_up_threshold.
DemandDurations == {300, 2700}

DemandIdle ==
    /\ fleet = 0
    /\ done = 0
    /\ requested = 0

\* get_running_instances: the running instances of the fleet.
RunningInstances(n) == [i \in 1..n |-> [InstanceId |-> i, LaunchTime |-> 1]]

\* A producer sends a job; counted says whether it also calls add_job, as
\* QueueMetricsManager offers (send_to_queue.py does not).
Enqueue(seconds, counted) ==
    /\ Len(sent) < MaxSent
    /\ sent' = Append(sent, seconds)
    /\ doc' = IF counted
              THEN Some(UpdatedStats(GetCurrentStats, ToMinutes(seconds), 1))
              ELSE doc
    /\ UNCHANGED <<mpc, mread, mdelta, serial, overlapped, finished, lastWriter, mops>>
    /\ UNCHANGED <<queueVars, lifecycleVars, progressVars, demandVars, engineVars,
                   scalerVars>>

\* An autoscaler run starts: it reads the metrics document, falling back to
\* the number of messages in the queue, and lists the fleet.
DemandObserve(storeOk, sqsOk) ==
    FleetObserve(storeOk, GetCurrentStats.minutes, sqsOk, Len(sent) - done,
                 RunningInstances(fleet))

\* The run's requests take effect before the next run: the spot instances
\* asked for are running workers, the instances terminated are gone.
FleetFollows ==
    /\ spc = "scaled"
    /\ spc' = "idle"
    /\ fleet' = Max(0, fleet + (IF launched = <<>> THEN 0 ELSE launched[1])
                             - (IF terminated = <<>> THEN 0 ELSE Len(terminated[1])))
    /\ launched' = <<>>
    /\ terminated' = <<>>
    /\ action' = "none"
    /\ UNCHANGED <<scaler, min_instances, max_instances, pending_minutes, current_count,
                   needed_instances, instances, launch_configured, dry_run,
                   store_readable, sqs_readable, queue_depth>>
    /\ UNCHANGED <<done, requested>>
    /\ UNCHANGED <<queueVars, lifecycleVars, producerVars, progressVars, engineVars,
                   metricsVars>>

\* A running worker receives the oldest waiting job, transcribes it, uploads
\* the transcript, calls complete_job and deletes the message.
WorkerTranscribes ==
    /\ fleet > 0
    /\ done < Len(sent)
    /\ done' = done + 1
    /\ doc' = Some(UpdatedStats(GetCurrentStats, -ToMinutes(sent[done + 1]), -1))
    /\ UNCHANGED <<mpc, mread, mdelta, serial, overlapped, finished, lastWriter, mops>>
    /\ UNCHANGED <<fleet, requested>>
    /\ UNCHANGED <<queueVars, lifecycleVars, producerVars, progressVars, engineVars,
                   scalerVars>>

\* A worker that finds the queue empty for longer than its idle threshold
\* shuts its instance down.
WorkerIdlesOut ==
    /\ fleet > 0
    /\ done = Len(sent)
    /\ fleet' = fleet - 1
    /\ UNCHANGED <<done, requested>>
    /\ UNCHANGED <<queueVars, lifecycleVars, producerVars, progressVars, engineVars,
                   metricsVars, scalerVars>>

\* Spot instances asked for or running, over all runs in one behaviour.
MaxOutstanding == 4

\* The run ends while its spot requests are still open: request_spot_instances
\* returned request ids, not instances, and get_running_instances lists only
\* instances that are pending or running.  The instances terminated are gone.
RequestsFollow ==
    /\ spc = "scaled"
    /\ LET asked == IF launched = <<>> THEN 0 ELSE launched[1]
           gone == IF terminated = <<>> THEN 0 ELSE Len(terminated[1])
       IN  /\ fleet + requested + asked <= MaxOutstanding
           /\ requested' = requested + asked
           /\ fleet' = Max(0, fleet - gone)
    /\ spc' = "idle"
    /\ launched' = <<>>
    /\ terminated' = <<>>
    /\ action' = "none"
    /\ UNCHANGED <<scaler, min_instances, max_instances, pending_minutes, current_count,
                   needed_instances, instances, launch_configured, dry_run,
                   store_readable, sqs_readable, queue_depth>>
    /\ UNCHANGED done
    /\ UNCHANGED <<queueVars, lifecycleVars, producerVars, progressVars, engineVars,
                   metricsVars>>

\* A spot request is fulfilled: the instance starts and runs a worker.
SpotFulfilled ==
    /\ requested > 0
    /\ requested' = requested - 1
    /\ fleet' = fleet + 1
    /\ UNCHANGED done
    /\ UNCHANGED <<queueVars, lifecycleVars, producerVars, progressVars, engineVars,
                   metricsVars, scalerVars>>

\* Autoscaler runs one after another, each able to start before the spot
\* requests of the runs before it are fulfilled.
NextSpot ==
    \/ \E seconds \in DemandDurations, counted \in BOOLEAN : Enqueue(seconds, counted)
    \/ \E storeOk \in BOOLEAN, sqsOk \in BOOLEAN : DemandObserve(storeOk, sqsOk)
    \/ ScalerCalculate
    \/ Scale
    \/ RequestsFollow
    \/ SpotFulfilled
    \/ WorkerTranscribes
    \/ WorkerIdlesOut

AutoscalerStep ==
    \/ \E storeOk \in BOOLEAN, sqsOk \in BOOLEAN : DemandObserve(storeOk, sqsOk)
    \/ ScalerCalculate
    \/ Scale
    \/ FleetFollows

NextDemand ==
    \/ \E seconds \in DemandDurations, counted \in BOOLEAN : Enqueue(seconds, counted)
    \/ AutoscalerStep
    \/ WorkerTranscribes
    \/ WorkerIdlesOut

\* The cron autoscaler, acting (no dry run, launch parameters given) and
\* allowed at least one instance.
InitDemand ==
    /\ scaler = "cron"
    /\ max_instances \in 1..MaxCfgInstances
    /\ min_instances \in 0..max_instances
    /\ FleetIdle
    /\ pending_minutes = 0
    /\ current_count = 0
    /\ needed_instances = -1
    /\ spc = "idle"

(***************************************************************************)
(* One worker's life: start, poll loop, idle timer, shutdown signal, stop  *)
(***************************************************************************)

\* Largest value of the clock (more than IdleThreshold); the idle threshold
\* and the job count are small so that a job can outlast the threshold and a
\* second job can follow.
MaxClock == 3
IdleThreshold == 1
MaxJobs == 2

\* check_worker_health: a worker is healthy when its heartbeat is less than
\* 5 minutes old; the clock counts periods of 5 minutes.
StaleAge == 1
Healthy(heartbeat, t) == heartbeat # None /\ t - Val(heartbeat) < StaleAge

\* should_continue_running() returns True, leaving the worker's fields as given.
Continue(idle, jp) ==
    [go |-> TRUE, why |-> "none", idle_start |-> idle, jobs_processed |-> jp]

\* should_continue_running() returns False.
StopFor(why, idle, jp) ==
    [go |-> FALSE, why |-> why, idle_start |-> idle, jobs_processed |-> jp]

\* TranscriptionWorker.should_continue_running from "Check queue depth" on:
\* get_queue_attributes may raise (the worker keeps running); the timer starts
\* when the queue is first seen empty and is cleared only when it is seen
\* non-empty.
CheckQueueDepth(attrsOk, queue_size, idle, jp, t) ==
    IF ~attrsOk THEN Continue(idle, jp)
    ELSE IF queue_size = 0
         THEN IF idle = None THEN Continue(Some(t), jp)
              ELSE IF t - Val(idle) > IdleThreshold THEN StopFor("idle", idle, jp)
              ELSE Continue(idle, jp)
         ELSE Continue(None, jp)

\* TranscriptionWorker.should_continue_running.
ShouldContinueRunning(flag, attrsOk, queue_size, idle, jp, t) ==
    IF flag THEN StopFor("signal", idle, jp)
    ELSE CheckQueueDepth(attrsOk, queue_size, idle, jp, t)

\* EnhancedTranscriptionWorker.should_continue_running: the timer restarts
\* when a job has succeeded since the last check; the queue is not consulted.
EnhancedShouldContinueRunning(flag, idle, jp, t) ==
    IF flag THEN StopFor("signal", idle, jp)
    ELSE LET started == IF jp > 0 \/ idle = None THEN Some(t) ELSE idle
         IN  IF t - Val(started) > IdleThreshold
             THEN StopFor("idle", started, 0)
             ELSE Continue(started, 0)

LifecycleIdle ==
    /\ lkind = "standard"
    /\ clock = 0
    /\ lpc = "check"
    /\ idle_start = None
    /\ shutdown_requested = FALSE
    /\ jobs_processed = 0
    /\ queued = 0
    /\ hidden = 0
    /\ arrived = 0
    /\ worker_status = None
    /\ poll_since = 0
    /\ stop_reason = "none"
    /\ received_after_signal = 0
    /\ last_heartbeat = None
    /\ status_jobs = None
    /\ record_jobs = None
    /\ acknowledged = 0
    /\ acknowledged_at_write = 0

\* __init__ and the head of run(): the enhanced worker writes its status
\* file with status RUNNING; the quick worker starts its timer at once and
\* has no loop condition.
InitLifecycle ==
    /\ lkind \in Kinds
    /\ clock = 0
    /\ lpc = IF lkind = "quick" THEN "poll" ELSE "check"
    /\ idle_start = IF lkind = "quick" THEN Some(0) ELSE None
    /\ shutdown_requested = FALSE
    /\ jobs_processed = 0
    /\ queued = 0
    /\ hidden = 0
    /\ arrived = 0
    /\ worker_status = IF lkind = "enhanced" THEN Some("RUNNING") ELSE None
    /\ poll_since = 0
    /\ stop_reason = "none"
    /\ received_after_signal = 0
    /\ last_heartbeat = None
    /\ status_jobs = None
    /\ record_jobs = None
    /\ acknowledged = 0
    /\ acknowledged_at_write = 0

\* The top of the while loop of run() in the standard and the enhanced
\* worker, with what follows the loop when the condition is false: the
\* enhanced worker writes status STOPPED (put_object may raise, and the
\* exception leaves run()); the standard worker only logs and shuts the host
\* down.
LoopTop(attrsOk, putOk) ==
    /\ lpc = "check"
    /\ lkind \in {"standard", "enhanced"}
    /\ LET r == IF lkind = "standard"
                THEN ShouldContinueRunning(shutdown_requested, attrsOk, queued,
                                           idle_start, jobs_processed, clock)
                ELSE EnhancedShouldContinueRunning(shutdown_requested, idle_start,
                                                   jobs_processed, clock)
       IN  /\ idle_start' = r.idle_start
           /\ jobs_processed' = r.jobs_processed
           /\ lpc' = IF r.go THEN "poll" ELSE "stopped"
           /\ stop_reason' = r.why
           /\ worker_status' = IF ~r.go /\ lkind = "enhanced" /\ putOk
                               THEN Some("STOPPED") ELSE worker_status
           /\ record_jobs' = IF ~r.go /\ lkind = "enhanced" /\ putOk
                             THEN status_jobs ELSE record_jobs
           /\ acknowledged_at_write' = IF ~r.go /\ lkind = "enhanced" /\ putOk
                                       THEN acknowledged ELSE acknowledged_at_write
    /\ UNCHANGED <<lkind, clock, shutdown_requested, queued, hidden, arrived,
                   poll_since, received_after_signal>>
    /\ UNCHANGED <<last_heartbeat, status_jobs, acknowledged>>
    /\ UNCHANGED <<queueVars, engineVars, metricsVars, scalerVars, producerVars, progressVars,
                   demandVars>>

\* The body of the loop up to the result of receive_message.  The enhanced
\* worker first writes its heartbeat; if that raises, the loop's except
\* clause sleeps and the loop starts over.  With a message the worker starts
\* the job (the quick worker restarts its timer first); without one the
\* standard and the enhanced worker go back to the loop condition, and the
\* quick worker compares its timer with the threshold.
Poll(hbOk, got) ==
    /\ lpc = "poll"
    /\ got => queued > 0
    /\ hbOk \/ lkind = "enhanced"
    /\ last_heartbeat' = IF hbOk /\ lkind = "enhanced" THEN Some(clock)
                         ELSE last_heartbeat
    /\ status_jobs' = IF lkind = "enhanced" THEN Some(jobs_processed) ELSE status_jobs
    /\ record_jobs' = IF hbOk /\ lkind = "enhanced" THEN Some(jobs_processed)
                      ELSE record_jobs
    /\ acknowledged_at_write' = IF hbOk /\ lkind = "enhanced" THEN acknowledged
                                ELSE acknowledged_at_write
    /\ UNCHANGED acknowledged
    /\ IF ~hbOk
       THEN /\ lpc' = "check"
            /\ UNCHANGED <<idle_start, queued, stop_reason, received_after_signal>>
       ELSE IF got
       THEN /\ lpc' = "processing"
            /\ queued' = queued - 1
            /\ idle_start' = IF lkind = "quick" THEN Some(clock) ELSE idle_start
            /\ received_after_signal' =
                   received_after_signal + (IF shutdown_requested THEN 1 ELSE 0)
            /\ UNCHANGED stop_reason
       ELSE /\ IF lkind = "quick"
               THEN IF clock - Val(idle_start) > IdleThreshold
                    THEN lpc' = "stopped" /\ stop_reason' = "idle"
                    ELSE lpc' = "poll" /\ UNCHANGED stop_reason
               ELSE lpc' = "check" /\ UNCHANGED stop_reason
            /\ UNCHANGED <<idle_start, queued, received_after_signal>>
    /\ UNCHANGED <<lkind, clock, shutdown_requested, jobs_processed, hidden, arrived,
                   worker_status, poll_since>>
    /\ UNCHANGED <<queueVars, engineVars, metricsVars, scalerVars, producerVars, progressVars,
                   demandVars>>

\* The job returns and the loop body ends: on success the message is deleted
\* and jobs_processed grows (the quick worker keeps no count); on failure the
\* message stays in the queue, invisible until its timeout passes.
FinishJob(success) ==
    /\ lpc = "processing"
    /\ lpc' = IF lkind = "quick" THEN "poll" ELSE "check"
    /\ jobs_processed' = IF success /\ lkind # "quick"
                         THEN jobs_processed + 1 ELSE jobs_processed
    /\ hidden' = IF success THEN hidden ELSE hidden + 1
    /\ poll_since' = clock
    /\ acknowledged' = IF success THEN acknowledged + 1 ELSE acknowledged
    /\ UNCHANGED <<lkind, clock, idle_start, shutdown_requested, queued, arrived,
                   worker_status, stop_reason, received_after_signal>>
    /\ UNCHANGED <<last_heartbeat, status_jobs, record_jobs, acknowledged_at_write>>
    /\ UNCHANGED <<queueVars, engineVars, metricsVars, scalerVars, producerVars, progressVars,
                   demandVars>>

\* signal_handler: SIGTERM or SIGINT sets the flag and returns to the
\* interrupted code.  Only the standard and the enhanced worker install it.
SignalHandler ==
    /\ lkind \in {"standard", "enhanced"}
    /\ lpc # "stopped"
    /\ ~shutdown_requested
    /\ shutdown_requested' = TRUE
    /\ UNCHANGED <<lkind, clock, lpc, idle_start, jobs_processed, queued, hidden,
                   arrived, worker_status, poll_since, stop_reason,
                   received_after_signal>>
    /\ UNCHANGED <<last_heartbeat, status_jobs, record_jobs, acknowledged,
                   acknowledged_at_write>>
    /\ UNCHANGED <<queueVars, engineVars, metricsVars, scalerVars, producerVars, progressVars,
                   demandVars>>

\* A producer sends a message.
Arrive ==
    /\ lpc # "stopped"
    /\ arrived < MaxJobs
    /\ arrived' = arrived + 1
    /\ queued' = queued + 1
    /\ UNCHANGED <<lkind, clock, lpc, idle_start, shutdown_requested, jobs_processed,
                   hidden, worker_status, poll_since, stop_reason,
                   received_after_signal>>
    /\ UNCHANGED <<last_heartbeat, status_jobs, record_jobs, acknowledged,
                   acknowledged_at_write>>
    /\ UNCHANGED <<queueVars, engineVars, metricsVars, scalerVars, producerVars, progressVars,
                   demandVars>>

\* The visibility timeout of a failed job's message passes.
Reappear ==
    /\ lpc # "stopped"
    /\ hidden > 0
    /\ hidden' = hidden - 1
    /\ queued' = queued + 1
    /\ UNCHANGED <<lkind, clock, lpc, idle_start, shutdown_requested, jobs_processed,
                   arrived, worker_status, poll_since, stop_reason,
                   received_after_signal>>
    /\ UNCHANGED <<last_heartbeat, status_jobs, record_jobs, acknowledged,
                   acknowledged_at_write>>
    /\ UNCHANGED <<queueVars, engineVars, metricsVars, scalerVars, producerVars, progressVars,
                   demandVars>>

\* Time passes, whatever the worker is doing.  Only differences between the
\* clock and a recorded time are ever compared with the threshold, so when
\* the clock has reached MaxClock the recorded times move back instead; a
\* time that has reached 0 is then more than IdleThreshold ago and stays so.
Tick ==
    /\ lpc # "stopped"
    /\ IF clock < MaxClock
       THEN /\ clock' = clock + 1
            /\ UNCHANGED <<idle_start, poll_since, last_heartbeat>>
       ELSE /\ idle_start' = IF idle_start = None THEN None
                             ELSE Some(Max(0, Val(idle_start) - 1))
            /\ poll_since' = Max(0, poll_since - 1)
            /\ last_heartbeat' = IF last_heartbeat = None THEN None
                                 ELSE Some(Max(0, Val(last_heartbeat) - 1))
            /\ UNCHANGED clock
    /\ UNCHANGED <<lkind, lpc, shutdown_requested, jobs_processed,
                   queued, hidden, arrived, worker_status, stop_reason,
                   received_after_signal, status_jobs, record_jobs, acknowledged,
                   acknowledged_at_write>>
    /\ UNCHANGED <<queueVars, engineVars, metricsVars, scalerVars, producerVars, progressVars,
                   demandVars>>

WorkerStep ==
    \/ \E attrsOk \in BOOLEAN, putOk \in BOOLEAN : LoopTop(attrsOk, putOk)
    \/ \E hbOk \in BOOLEAN, got \in BOOLEAN : Poll(hbOk, got)
    \/ \E success \in BOOLEAN : FinishJob(success)

NextLifecycle ==
    \/ WorkerStep
    \/ SignalHandler
    \/ Arrive
    \/ Reappear
    \/ Tick

Init ==
    /\ now = 0
    /\ kind \in [Workers -> Kinds]
    /\ wpc = [w \in Workers |-> "POLLING"]
    /\ claimed = [w \in Workers |-> 0]
    /\ claimedAt = [w \in Workers |-> 0]
    /\ events = [w \in Workers |-> <<>>]
    /\ deleted = [m \in Messages |-> FALSE]
    /\ visibleAt = [m \in Messages |-> 0]
    /\ receives = 0
    /\ decrements = 0
    /\ LifecycleIdle
    /\ ProducerIdle
    /\ ProgressIdle
    /\ DemandIdle
    /\ EngineIdle
    /\ MetricsIdle
    /\ ScalerIdle

\* run(): receive_message(MaxNumberOfMessages=1, VisibilityTimeout=...) returns
\* a message that is in the queue and visible, and hides it for the window.
ReceiveMessage(w, m) ==
    /\ wpc[w] = "POLLING"
    /\ ~deleted[m]
    /\ visibleAt[m] <= now
    /\ receives < MaxReceives
    /\ receives' = receives + 1
    /\ visibleAt' = [visibleAt EXCEPT ![m] = now + VisibilityTimeout(kind[w])]
    /\ wpc' = [wpc EXCEPT ![w] = "PROCESSING"]
    /\ claimed' = [claimed EXCEPT ![w] = m]
    /\ claimedAt' = [claimedAt EXCEPT ![w] = now]
    /\ events' = [events EXCEPT ![w] = <<>>]
    /\ UNCHANGED <<now, kind, deleted, decrements>>
    /\ UNCHANGED <<engineVars, metricsVars, scalerVars, lifecycleVars, producerVars, progressVars,
                   demandVars>>

\* How a delete_message call can end: the message is removed; the call returns
\* but the message stays (its receipt handle is no longer the newest one); the
\* call raises and the loop's except logs it.
DeleteOutcomes == {"removed", "kept", "raised"}

\* run(), "if success:": delete_message, then in TranscriptionWorker
\* jobs_processed += 1, which a raising delete_message skips.
AfterSuccess(k, outcome) ==
    IF outcome = "raised"
    THEN <<"delete_message", "delete_raised">>
    ELSE IF k = "standard"
         THEN <<"delete_message", "jobs_processed">>
         ELSE <<"delete_message">>

\* run(): success = process_job(message), then delete_message when it succeeded,
\* else the message is left in the queue; then the next iteration.
ProcessJob(w, failAt, outcome) ==
    /\ wpc[w] = "PROCESSING"
    /\ failAt = "load_model" => LoadsModelInAttempt(kind[w])
    /\ LET attempt == AttemptEvents(kind[w], failAt)
       IN IF Success(attempt)
          THEN /\ events' = [events EXCEPT ![w] = attempt \o AfterSuccess(kind[w], outcome)]
               /\ deleted' = [deleted EXCEPT ![claimed[w]] = @ \/ outcome = "removed"]
          ELSE /\ outcome = "kept"
               /\ events' = [events EXCEPT ![w] = attempt]
               /\ UNCHANGED deleted
    /\ wpc' = [wpc EXCEPT ![w] = "POLLING"]
    /\ claimed' = [claimed EXCEPT ![w] = 0]
    /\ claimedAt' = [claimedAt EXCEPT ![w] = 0]
    /\ decrements' = decrements + MetricsDecrements(AttemptEvents(kind[w], failAt))
    /\ UNCHANGED <<now, kind, visibleAt, receives>>
    /\ UNCHANGED <<engineVars, metricsVars, scalerVars, lifecycleVars, producerVars, progressVars,
                   demandVars>>

\* Time passes until the visibility window of some hidden message ends.
VisibilityExpires(m) ==
    /\ receives < MaxReceives
    /\ ~deleted[m]
    /\ visibleAt[m] > now
    /\ now' = visibleAt[m]
    /\ UNCHANGED <<kind, wpc, claimed, claimedAt, events, deleted, visibleAt, receives,
                   decrements>>
    /\ UNCHANGED <<engineVars, metricsVars, scalerVars, lifecycleVars, producerVars, progressVars,
                   demandVars>>

\* The worker's instance is lost (crash, spot preemption) while it holds a
\* message; a fresh worker of the same kind takes its place.
WorkerCrash(w) ==
    /\ wpc[w] = "PROCESSING"
    /\ wpc' = [wpc EXCEPT ![w] = "POLLING"]
    /\ events' = [events EXCEPT ![w] = <<>>]
    /\ claimed' = [claimed EXCEPT ![w] = 0]
    /\ claimedAt' = [claimedAt EXCEPT ![w] = 0]
    /\ UNCHANGED <<now, kind, deleted, visibleAt, receives, decrements>>
    /\ UNCHANGED <<engineVars, metricsVars, scalerVars, lifecycleVars, producerVars, progressVars,
                   demandVars>>

Next ==
    \/ \E w \in Workers, m \in Messages : ReceiveMessage(w, m)
    \/ \E w \in Workers, failAt \in FailPoints, outcome \in DeleteOutcomes :
           ProcessJob(w, failAt, outcome)
    \/ \E m \in Messages : VisibilityExpires(m)
    \/ \E w \in Workers : WorkerCrash(w)

Spec == Init /\ [][Next]_vars

NextMetrics ==
    \/ \E c \in Clients, d \in Durations : AddJob(c, d)
    \/ \E c \in Clients, d \in Durations : CompleteJob(c, d)
    \/ \E c \in Clients, d \in Durations : RemoveJob(c, d)
    \/ \E c \in Clients, md \in DirectMinutes, jd \in DirectJobs : UpdateStats(c, md, jd)
    \/ \E c \in Clients : UpdateStatsWrite(c)
    \/ \E c \in Clients : UpdateStatsRaises(c)
    \/ \E c \in Clients : ResetStats(c)

NextScaler ==
    \/ ScalerObserve
    \/ ScalerCalculate

NextFleet ==
    \/ \E storeOk \in BOOLEAN, stored \in StoredMinutes, sqsOk \in BOOLEAN,
          depth \in 0..MaxQueueDepth, insts \in InstanceLists :
           FleetObserve(storeOk, stored, sqsOk, depth, insts)
    \/ ScalerCalculate
    \/ Scale

QueueIdle ==
    /\ now = 0
    /\ kind = [w \in Workers |-> "standard"]
    /\ wpc = [w \in Workers |-> "POLLING"]
    /\ claimed = [w \in Workers |-> 0]
    /\ claimedAt = [w \in Workers |-> 0]
    /\ events = [w \in Workers |-> <<>>]
    /\ deleted = [m \in Messages |-> FALSE]
    /\ visibleAt = [m \in Messages |-> 0]
    /\ receives = 0
    /\ decrements = 0

WorkerIdle ==
    /\ QueueIdle
    /\ LifecycleIdle
    /\ ProducerIdle
    /\ ProgressIdle
    /\ DemandIdle

InitEngineSpec ==
    /\ WorkerIdle
    /\ InitEngine
    /\ MetricsIdle
    /\ ScalerIdle

SpecEngine == InitEngineSpec /\ [][NextEngine]_vars

InitMetricsSpec ==
    /\ WorkerIdle
    /\ EngineIdle
    /\ InitMetrics
    /\ ScalerIdle

SpecMetrics == InitMetricsSpec /\ [][NextMetrics]_vars

InitScalerSpec ==
    /\ WorkerIdle
    /\ EngineIdle
    /\ MetricsIdle
    /\ InitScaler

SpecScaler == InitScalerSpec /\ [][NextScaler]_vars

InitFleetSpec ==
    /\ WorkerIdle
    /\ EngineIdle
    /\ MetricsIdle
    /\ InitFleet

SpecFleet == InitFleetSpec /\ [][NextFleet]_vars

InitLifecycleSpec ==
    /\ QueueIdle
    /\ InitLifecycle
    /\ ProducerIdle
    /\ ProgressIdle
    /\ DemandIdle
    /\ EngineIdle
    /\ MetricsIdle
    /\ ScalerIdle

InitProducerSpec ==
    /\ QueueIdle
    /\ LifecycleIdle
    /\ ProducerIdle
    /\ ProgressIdle
    /\ DemandIdle
    /\ EngineIdle
    /\ MetricsIdle
    /\ InitFleet

SpecProducer == InitProducerSpec /\ [][NextProducer]_vars

InitProgressSpec ==
    /\ QueueIdle
    /\ LifecycleIdle
    /\ ProducerIdle
    /\ ProgressIdle
    /\ DemandIdle
    /\ EngineIdle
    /\ MetricsIdle
    /\ ScalerIdle

SpecProgress == InitProgressSpec /\ [][NextProgress]_vars

InitDemandSpec ==
    /\ QueueIdle
    /\ LifecycleIdle
    /\ ProducerIdle
    /\ ProgressIdle
    /\ DemandIdle
    /\ EngineIdle
    /\ MetricsIdle
    /\ InitDemand

SpecDemand == InitDemandSpec /\ [][NextDemand]_vars

InitSpotSpec ==
    /\ QueueIdle
    /\ LifecycleIdle
    /\ ProducerIdle
    /\ ProgressIdle
    /\ DemandIdle
    /\ EngineIdle
    /\ MetricsIdle
    /\ InitDemand

SpecSpot == InitSpotSpec /\ [][NextSpot]_vars

\* The autoscaler is run again and again, and a running worker with a job
\* waiting eventually processes it.
SpecDemandFair ==
    /\ SpecDemand
    /\ WF_vars(AutoscalerStep)
    /\ WF_vars(WorkerTranscribes)

SpecLifecycle == InitLifecycleSpec /\ [][NextLifecycle]_vars

\* The worker process and the clock keep running: a step of the worker that
\* stays possible is eventually taken, and time does not stand still.
SpecLifecycleFair ==
    /\ SpecLifecycle
    /\ WF_vars(WorkerStep)
    /\ WF_vars(Tick)

(***************************************************************************)
(* Properties of the worker loops                                          *)
(***************************************************************************)

\* Position of the first occurrence of e in log, 0 when it does not occur.
FirstIndex(e, log) ==
    IF Occurs(e, log) THEN CHOOSE i \in 1..Len(log) :
                               /\ log[i] = e
                               /\ \A j \in 1..(i - 1) : log[j] # e
                      ELSE 0

\* C1: in every worker loop a message is deleted only after the same attempt
\* uploaded the transcript, and an attempt that failed (process_job returned
\* False) never deletes its message, which stays in the queue for redelivery.
DeleteOnlyAfterUpload ==
    \A w \in Workers :
        /\ HasEvent(w, "delete_message") =>
               /\ HasEvent(w, "upload")
               /\ FirstIndex("upload", events[w]) < FirstIndex("delete_message", events[w])
               /\ ~HasEvent(w, "return_false")
        /\ HasEvent(w, "return_false") => ~HasEvent(w, "delete_message")

\* C1 happens: one worker's attempt failed before the upload and left the
\* message, and another worker later uploaded and deleted it.
DeleteOnlyAfterUploadWitness ==
    \E w1, w2 \in Workers :
        /\ w1 # w2
        /\ wpc[w1] = "POLLING" /\ wpc[w2] = "POLLING"
        /\ HasEvent(w1, "return_false") /\ ~HasEvent(w1, "upload")
        /\ HasEvent(w2, "upload") /\ HasEvent(w2, "delete_message")
        /\ \E m \in Messages : deleted[m]

\* Two workers are in PROCESSING for the same message.
BothProcessing(w1, w2) ==
    /\ w1 # w2
    /\ wpc[w1] = "PROCESSING" /\ wpc[w2] = "PROCESSING"
    /\ claimed[w1] = claimed[w2]

\* The visibility window each loop asks for at receive time, in seconds.
RequestedWindow(k) ==
    CASE k = "standard" -> VisibilityStandard
      [] k = "enhanced" -> VisibilityEnhanced
      [] k = "quick" -> VisibilityQuick

\* C2 as stated: in no reachable state are two workers both in PROCESSING for
\* the same message, whatever the job's duration.
OneWorkerPerJob ==
    \A w1, w2 \in Workers : ~BothProcessing(w1, w2)

\* C2 amended: two workers are both in PROCESSING for the same message only
\* when the later of them received it no earlier than the end of the
\* visibility window the earlier one requested (1800 s standard, 3600 s
\* enhanced, 300 s quick): the job outlasted its window.
OneWorkerPerJobWithinWindow ==
    \A w1, w2 \in Workers :
        (BothProcessing(w1, w2) /\ claimedAt[w1] <= claimedAt[w2]) =>
            claimedAt[w2] >= claimedAt[w1] + RequestedWindow(kind[w1])

\* C2 happens: a job outlasts its window and a second worker receives the
\* same message while the first is still processing it.
OneWorkerPerJobWitness ==
    \E w1, w2 \in Workers :
        /\ BothProcessing(w1, w2)
        /\ claimedAt[w2] >= claimedAt[w1] + RequestedWindow(kind[w1])
        /\ ~deleted[claimed[w1]]

(***************************************************************************)
(* Properties of the transcription engine                                  *)
(***************************************************************************)

TranscribeMethods == {"transcribe_audio", "gpu_transcribe_audio"}

\* C3: after a worker crashed having finished chunks 0..k, the worker call that
\* next processes the job (transcribe_audio as process_job calls it, without
\* a video_id) runs the model on none of the chunks 0..k.
NeverRestartsFromZero ==
    (method \in TranscribeMethods /\ ~video_id /\ epc # "idle") =>
        invoked \cap prevInterrupted = {}

\* C4: when the merged transcript was already stored at the start of
\* resume_transcription, the call returns that transcript unchanged, runs the
\* model on no chunk, and writes no ChunkResult and no merged transcript.
IdempotentResume ==
    (method = "resume_transcription" /\ epc # "idle" /\ storeAtStart.full # None) =>
        /\ epc = "done"
        /\ returned = storeAtStart.full
        /\ invoked = {}
        /\ wroteChunks = {}
        /\ ~wroteFull
        /\ fullStore = storeAtStart.full

\* The segments of an uninterrupted transcribe_audio run: those of chunks
\* 0..(n - 1), each shifted to its chunk's position.
RECURSIVE UninterruptedSegments(_)
UninterruptedSegments(n) ==
    IF n = 0
    THEN <<>>
    ELSE UninterruptedSegments(n - 1) \o Shift(modelOut[n - 1], n - 1)

SegmentSet(segs) == {segs[j] : j \in 1..Len(segs)}

\* C5: when ChunkResults for a set S of chunks were stored and no merged
\* transcript existed at the start of resume_transcription, a call that
\* returns has run the model exactly on the chunks outside S, and its
\* transcript has the same set of segments as an uninterrupted run.
CrashResumeEquivalence ==
    (method = "resume_transcription" /\ epc = "done" /\ storeAtStart.full = None) =>
        /\ invoked = Chunks \ storeAtStart.chunks
        /\ SegmentSet(Val(returned).segments) = SegmentSet(UninterruptedSegments(nChunks))

\* C6: when transcribe_audio (standard or GPU) has returned, the number of
\* ChunkResults stored for the job equals the number of chunks of the audio.
CheckpointCompleteness ==
    (method \in TranscribeMethods /\ epc = "done") =>
        Cardinality(StoredChunks) = nChunks

IsSortedByStart(segs) ==
    \A i \in 1..(Len(segs) - 1) : segs[i].start <= segs[i + 1].start

\* C7: every merged transcript that was returned or stored has its segments
\* in ascending order of start, in whatever order the chunks were processed
\* or recovered.
GlobalOrdering ==
    \A t \in {returned, fullStore, fullGpuStore} :
        t # None => IsSortedByStart(Val(t).segments)

\* C7 happens: resume_transcription recovered a later chunk before it
\* transcribed an earlier one, so the segments were collected out of order,
\* and it returned and stored the merged transcript.
GlobalOrderingWitness ==
    /\ method = "resume_transcription"
    /\ epc = "done"
    /\ wroteFull
    /\ invoked # {}
    /\ ~IsSortedByStart(all_segments)
    /\ returned = fullStore
    /\ Len(Val(returned).segments) = Len(all_segments)

(***************************************************************************)
(* Properties of the queue-metrics document                                *)
(***************************************************************************)

\* C8: every value of the queue-metrics document that is written, under any
\* interleaving of add_job, complete_job, remove_job, update_stats and
\* reset_stats calls, has total_minutes_pending >= 0 and job_count >= 0.
MetricsNonNegative ==
    doc # None => (Val(doc).minutes >= 0 /\ Val(doc).jobs >= 0)

\* C8 happens: of two overlapping calls, the one that wrote last had read
\* values that its deltas take below zero, and it stored zeros.
MetricsNonNegativeWitness ==
    /\ overlapped
    /\ lastWriter # 0
    /\ mpc[lastWriter] = "idle"
    /\ mread[lastWriter].minutes + mdelta[lastWriter][1] < 0
    /\ mread[lastWriter].jobs + mdelta[lastWriter][2] < 0
    /\ doc = Some(DefaultStats)

NeededWithinLimits ==
    spc = "calculated" =>
        (min_instances <= needed_instances /\ needed_instances <= max_instances)

\* C11: one invocation of calculate_needed_instances with current_count = N >= 1
\* never returns a target below N - 1, whatever pending_minutes is; with
\* pending_minutes = 5 and current_count = 3 the target is 2.
GradualScaleDown ==
    (spc = "calculated" /\ current_count >= 1) =>
        /\ needed_instances >= current_count - 1
        /\ (pending_minutes = 5 /\ current_count = 3 /\ min_instances <= 2
               /\ max_instances >= 2) => needed_instances = 2

\* C12: when pending_minutes is above the scale-up threshold and current_count
\* is below max_instances, calculate_needed_instances returns more than
\* current_count, at least min(max_instances, current_count + 1); with
\* pending_minutes = 45 and current_count = 0 the target is 1.
IncrementalGrowth ==
    (/\ spc = "calculated"
     /\ pending_minutes > scale_up_threshold
     /\ current_count < max_instances) =>
        /\ needed_instances > current_count
        /\ needed_instances >= Min(max_instances, current_count + 1)
        /\ (pending_minutes = 45 /\ current_count = 0 /\ min_instances <= 1) =>
               needed_instances = 1

\* C12 happens: the work alone asks for fewer instances than are running
\* (45 minutes, two instances) and the target is one more than the fleet; and
\* the scenario 45 minutes, no instance, target 1.
IncrementalGrowthWitness ==
    /\ spc = "calculated"
    /\ pending_minutes = 45
    /\ \/ current_count = 2 /\ max_instances >= 3 /\ needed_instances = 3
       \/ current_count = 0 /\ max_instances >= 1 /\ needed_instances = 1

(***************************************************************************)
(* Properties of one autoscaler run                                        *)
(***************************************************************************)

\* The InstanceIds handed to terminate_instances in this run.
TerminatedIds ==
    UNION {{terminated[c][j] : j \in 1..Len(terminated[c])} : c \in 1..Len(terminated)}

InstanceById(id) ==
    instances[CHOOSE i \in 1..Len(instances) : instances[i].InstanceId = id]

ListedIds == {instances[i].InstanceId : i \in 1..Len(instances)}

\* C13: whenever terminate_excess_instances terminates instances, every
\* terminated instance was launched no earlier than every instance it keeps.
NewestFirstTermination ==
    \A t \in TerminatedIds, k \in ListedIds \ TerminatedIds :
        InstanceById(t).LaunchTime >= InstanceById(k).LaunchTime

\* C13 happens: the listing had an older instance ahead of a newer one; the
\* newer one was terminated and the older one kept.
NewestFirstTerminationWitness ==
    /\ spc = "scaled"
    /\ \E t \in TerminatedIds, k \in ListedIds \ TerminatedIds :
           /\ k < t
           /\ InstanceById(t).LaunchTime > InstanceById(k).LaunchTime

\* C14: in a run that is not a dry run, a target above current_count makes
\* one launch request for exactly target - current_count instances and no
\* terminate; a target below it terminates exactly current_count - target
\* instances and launches none; an equal target makes neither call.
ScaleActsOnDifference ==
    (spc = "scaled" /\ ~dry_run) =>
        /\ needed_instances > current_count =>
               (launched = <<needed_instances - current_count>> /\ terminated = <<>>)
        /\ needed_instances < current_count =>
               /\ launched = <<>>
               /\ Len(terminated) = 1
               /\ Cardinality(TerminatedIds) = current_count - needed_instances
        /\ needed_instances = current_count =>
               (launched = <<>> /\ terminated = <<>>)

\* C15: when the queue-metrics document cannot be read while the queue holds
\* messages and answers, the autoscaler (cron and lambda) sizes the fleet from
\* message count times the per-job guess, never from a backlog of zero.
FallbackToQueueDepth ==
    (spc # "idle" /\ ~store_readable /\ sqs_readable /\ queue_depth > 0) =>
        /\ pending_minutes = queue_depth * sqs_minutes_per_job
        /\ pending_minutes > 0

\* Number of occurrences of e in log.
Count(e, log) == Cardinality({i \in 1..Len(log) : log[i] = e})

MetricsWorkers == {w \in Workers : kind[w] \in {"standard", "enhanced"}}

\* C16: on every failed attempt TranscriptionWorker.process_job and
\* EnhancedTranscriptionWorker.process_job_with_progress leave the message in
\* the queue and call remove_job exactly once.
RemoveJobOncePerFailure ==
    \A w \in MetricsWorkers :
        HasEvent(w, "return_false") =>
            /\ Count("remove_job", events[w]) = 1
            /\ ~HasEvent(w, "delete_message")

\* C17: on every successful job of TranscriptionWorker and
\* EnhancedTranscriptionWorker the upload, exactly one complete_job call, the
\* deletion of the message and the increment of jobs_processed happen in this
\* order; complete_job is never called before the upload succeeded.
CompleteJobInOrder ==
    \A w \in MetricsWorkers :
        /\ (HasEvent(w, "return_true") /\ ~HasEvent(w, "delete_raised")) =>
               /\ Count("complete_job", events[w]) = 1
               /\ Count("jobs_processed", events[w]) = 1
               /\ FirstIndex("upload", events[w]) < FirstIndex("complete_job", events[w])
               /\ FirstIndex("complete_job", events[w])
                      < FirstIndex("delete_message", events[w])
               /\ FirstIndex("delete_message", events[w])
                      < FirstIndex("jobs_processed", events[w])
        /\ (HasEvent(w, "complete_job") \/ HasEvent(w, "complete_job_raised")) =>
               HasEvent(w, "upload")

(***************************************************************************)
(* Properties of a worker's life                                           *)
(***************************************************************************)

\* C18: a worker stops for idleness only when it has polled without a message
\* for longer than the idle threshold: the time since its last job ended (or
\* since it started) exceeds the threshold, so processing time never counts
\* and a job just finished restarts the timer.
IdleOnlyAfterEmptyPolling ==
    (lpc = "stopped" /\ stop_reason = "idle") => clock - poll_since > IdleThreshold

\* C19: if no message ever arrives and no shutdown signal is delivered, the
\* worker eventually stops and its status file says STOPPED.
IdleShutdownLiveness ==
    ([](arrived = 0) /\ [](~shutdown_requested))
        => <>(lpc = "stopped" /\ worker_status = Some("STOPPED"))

\* C20: a shutdown signal is cooperative: it leaves a job in progress to reach
\* its outcome, and once shutdown has been requested the worker receives and
\* starts no further message before it stops.
CooperativeCancellation ==
    shutdown_requested => received_after_signal = 0

\* C21: the heartbeat does not depend on job processing: while a worker that
\* keeps a status file is busy with a job, its last_heartbeat stays fresh
\* enough for the monitor to call it healthy.
HeartbeatDuringProcessing ==
    (lkind = "enhanced" /\ lpc = "processing") => Healthy(last_heartbeat, clock)

(***************************************************************************)
(* Properties of the engine's failures, checkpoints and progress           *)
(***************************************************************************)

\* The call of transcribe_audio or resume_transcription has failed.
EngineFailed ==
    epc = "failed" /\ method \in {"transcribe_audio", "resume_transcription"}

\* C22: when a chunk's transcription fails, the call raises: it returns no
\* transcript, partial or not, it writes no merged transcript, and every
\* ChunkResult that was in the bucket before the failure (found at the start
\* or written by this call) is still there, unchanged, and is listed for the
\* next resume.
ChunkFailureAbortsJob ==
    EngineFailed =>
        /\ returned = None
        /\ ~wroteFull
        /\ fullStore = storeAtStart.full
        /\ \A i \in storeAtStart.chunks \cup wroteChunks :
               /\ chunkStore[i] = Some(Shift(modelOut[i], i))
               /\ \E k \in 1..Len(GetCompletedSegments(TRUE)) :
                      GetCompletedSegments(TRUE)[k] = i

\* A chunk with segments failed in the model after an earlier chunk had been
\* persisted by the same call: nothing of the failed chunk was collected.
ChunkFailureAbortsJobWitness ==
    /\ EngineFailed
    /\ chunkIdx < nChunks
    /\ chunkIdx \in invoked
    /\ modelOut[chunkIdx] # <<>>
    /\ wroteChunks # {}
    /\ all_segments # <<>>
    /\ \A k \in 1..Len(all_segments) : all_segments[k].start < chunkIdx * chunk_size

(***************************************************************************)
(* Properties of the producer                                              *)
(***************************************************************************)

RECURSIVE SumMinutes(_)
SumMinutes(jobs) ==
    IF jobs = <<>> THEN 0 ELSE ToMinutes(Head(jobs)) + SumMinutes(Tail(jobs))

\* C23: every job sent to the queue is added to the queue metrics document:
\* with no worker at work, job_count is the number of jobs sent and
\* total_minutes_pending the sum of their estimated minutes, and that is the
\* backlog an autoscaler run reads from the document.
ProducerAddsToMetrics ==
    /\ GetCurrentStats.jobs = Len(sent)
    /\ GetCurrentStats.minutes = SumMinutes(sent)
    /\ (spc = "observed" /\ store_readable /\ queue_depth = Len(sent))
           => pending_minutes = SumMinutes(sent)

(***************************************************************************)
(* Properties of the job's progress document                               *)
(***************************************************************************)

\* C24: the progress document is terminal at COMPLETED or FAILED: once an
\* attempt has ended, however it ended, the document says COMPLETED or
\* FAILED, and it says COMPLETED only when the transcript has been uploaded.
ProgressTerminal ==
    /\ attempt_ended # "none" =>
           progress_status \in {Some("COMPLETED"), Some("FAILED")}
    /\ progress_status = Some("COMPLETED") => transcript_uploaded

(***************************************************************************)
(* Properties of the queue-metrics document when it is missing             *)
(***************************************************************************)

ZeroStats == [minutes |-> 0, jobs |-> 0]

\* C25: reading a missing metrics document gives the zero value instead of
\* an error, and an update_stats that read the missing document (or the zero
\* value) writes max(0, delta) for each field.
MissingDocumentIsZero ==
    [][\A c \in Clients :
          /\ (doc = None /\ mpc[c] = "idle" /\ mpc'[c] = "read")
                 => (GetCurrentStats = ZeroStats /\ mread'[c] = ZeroStats)
          /\ (mpc[c] = "read" /\ mpc'[c] = "idle" /\ Len(finished') = Len(finished) + 1
                  /\ mread[c] = ZeroStats)
                 => doc' = Some([minutes |-> Max(0, mdelta[c][1]),
                                 jobs |-> Max(0, mdelta[c][2])])]_vars

\* The first operation ever started found no document, subtracted, and wrote.
MissingDocumentIsZeroWitness ==
    /\ mops = 1
    /\ Len(finished) = 1
    /\ finished[1][1] < 0
    /\ doc = Some(ZeroStats)

(***************************************************************************)
(* Properties of the fleet following demand                                *)
(***************************************************************************)

\* C26: the fleet matches demand: with autoscaler runs and workers scheduled
\* fairly and every attempt succeeding, each job sent is eventually
\* transcribed and its message deleted: again and again (and, once the
\* producer has stopped, for good) no job sent is left undone.
FleetMatchesDemand ==
    []<>(done = Len(sent))

(***************************************************************************)
(* Properties of the hysteresis band                                       *)
(***************************************************************************)

\* pending_minutes is between the two thresholds of the autoscaler at work.
InBand ==
    IF scaler = "cron"
    THEN scale_down_threshold <= pending_minutes /\ pending_minutes <= scale_up_threshold
    ELSE SCALE_DOWN_THRESHOLD <= pending_minutes /\ pending_minutes <= SCALE_UP_THRESHOLD

CheckpointBeforeAdvance ==
    method \in {"transcribe_audio", "resume_transcription"} =>
        /\ \A i \in invoked, j \in invoked : i < j => i \in StoredChunks
        /\ Cardinality(invoked \ StoredChunks) <= 1

\* C29: the progress counter handed to the job tracker by transcribe_audio and
\* resume_transcription never decreases, never exceeds total_chunks (the
\* number of chunk files) and equals total_chunks when the call returns a
\* transcript it assembled.
ProgressIsTrueFraction ==
    method \in {"transcribe_audio", "resume_transcription"} =>
        /\ \A k \in 1..Len(reported) : reported[k] <= nChunks
        /\ \A k \in 1..(Len(reported) - 1) : reported[k] <= reported[k + 1]
        /\ (epc = "done" /\ reported # <<>>) => reported[Len(reported)] = nChunks

NoDuplicates(segs) ==
    \A j \in 1..Len(segs), k \in 1..Len(segs) : segs[j] = segs[k] => j = k

\* C30: every segment of chunk i is moved by exactly i * chunk_size, once: a
\* stored ChunkResult holds its chunk's segments already moved, and the
\* segments collected by transcribe_audio and resume_transcription, recovered
\* or fresh, and those of the merged transcript they return and store, are
\* segments of the uninterrupted run, none twice, with all those of the
\* chunks this call transcribed among them.
ShiftedExactlyOnce ==
    /\ \A i \in Chunks :
           chunkStore[i] # None => Val(chunkStore[i]) = Shift(modelOut[i], i)
    /\ method \in {"transcribe_audio", "resume_transcription"} =>
           /\ NoDuplicates(all_segments)
           /\ SegmentSet(all_segments) \subseteq SegmentSet(UninterruptedSegments(nChunks))
           /\ \A i \in invoked :
                  (i < chunkIdx \/ epc = "persist") =>
                      SegmentSet(Shift(modelOut[i], i)) \subseteq SegmentSet(all_segments)
           /\ \A t \in {returned, fullStore} :
                  t # None =>
                      /\ NoDuplicates(Val(t).segments)
                      /\ SegmentSet(Val(t).segments)
                             \subseteq SegmentSet(UninterruptedSegments(nChunks))
           /\ (epc = "done" /\ foundFull = None) =>
                  /\ Len(Val(returned).segments) = Len(all_segments)
                  /\ SegmentSet(Val(returned).segments) = SegmentSet(all_segments)

\* C30 happens: resume_transcription recovered the stored segments of a chunk
\* past the first, transcribed another chunk past the first, and returned
\* and stored the transcript that holds both.
ShiftedExactlyOnceWitness ==
    /\ method = "resume_transcription"
    /\ epc = "done"
    /\ wroteFull
    /\ returned = fullStore
    /\ \E i \in storeAtStart.chunks, j \in invoked :
           /\ i >= 1 /\ j >= 1 /\ i # j
           /\ modelOut[i] # <<>> /\ modelOut[j] # <<>>
           /\ SegmentSet(Shift(modelOut[i], i)) \cup SegmentSet(Shift(modelOut[j], j))
                  \subseteq SegmentSet(Val(returned).segments)

\* C31: the jobs_processed written into the worker's status file by each
\* heartbeat and by the final STOPPED write is the number of jobs the worker
\* had processed and deleted from the queue when it wrote.
RecordCountsJobs ==
    (lkind = "enhanced" /\ record_jobs # None) =>
        Val(record_jobs) = acknowledged_at_write

\* C32: the standard and the enhanced worker have written their status file
\* with status RUNNING before their first receive, the file says STOPPED
\* after every clean shutdown (idle or signal), and once it says STOPPED it
\* is never rewritten as RUNNING.
WorkerRecordLifecycle ==
    /\ [](lkind \in {"standard", "enhanced"} =>
            /\ lpc = "processing" => worker_status # None
            /\ (lpc = "stopped" /\ stop_reason \in {"idle", "signal"}) =>
                   worker_status = Some("STOPPED"))
    /\ [][worker_status = Some("STOPPED") => worker_status' = Some("STOPPED")]_vars

\* C33: a failure to load the model never happens to a worker that holds a
\* message: no attempt fails, and the queue metrics are not decremented,
\* because the model could not be loaded.
ModelLoadFailureClaimsNoWork ==
    \A w \in Workers :
        HasEvent(w, "load_model_raised") =>
            /\ ~HasEvent(w, "return_false")
            /\ ~HasEvent(w, "remove_job")

\* C34: a stored ChunkResult never changes content once written, whichever
\* engine calls run on the job, and every merged transcript stored for the job
\* has the segment set of a single uninterrupted run.
ChunkResultsNeverMutated ==
    /\ [][\A i \in 0..(MaxChunks - 1) :
             chunkStore[i] # None => chunkStore'[i] = chunkStore[i]]_vars
    /\ [](fullStore # None =>
             SegmentSet(Val(fullStore).segments)
                 = SegmentSet(UninterruptedSegments(nChunks)))

IsPrefix(a, b) == Len(a) <= Len(b) /\ SubSeq(b, 1, Len(a)) = a

\* C35: the detailed log of a job is append-only: every write of it has the
\* content stored before as a prefix, within an attempt and across the
\* attempts made on the job.
DetailedLogAppendOnly ==
    [][(detailed_log # None /\ detailed_log' # detailed_log) =>
           IsPrefix(Val(detailed_log), Val(detailed_log'))]_vars

\* C36: with max_instances at least 1 and pending work recorded, the target
\* calculate_needed_instances returns is at least 1, whatever the current
\* count: the fleet is not left at zero and its last instance is not
\* terminated.
NeverZeroWhilePending ==
    (spc = "calculated" /\ max_instances >= 1 /\ pending_minutes > 0) =>
        needed_instances >= 1

\* C37: the metrics are decremented once per job, not once per delivery: with
\* every job counted by one add_job, the job_count the decrements leave is
\* never below the number of jobs whose message is still in the queue.
MetricsOncePerJob ==
    Max(0, NMessages - decrements) >= Cardinality({m \in Messages : ~deleted[m]})

\* C38: an attempt of TranscriptionWorker.process_job that has returned made
\* exactly one metrics decrement, complete_job or remove_job and never
\* both, also when a step after complete_job failed.
ExactlyOneDecrement ==
    \A w \in Workers :
        (kind[w] = "standard"
            /\ (HasEvent(w, "return_true") \/ HasEvent(w, "return_false"))) =>
            MetricsDecrements(events[w]) = 1

\* C39: resume_transcription never silently omits a chunk that is listed as
\* completed but cannot be loaded: the merged transcript it stores holds the
\* segments of every chunk of the audio.
NoSilentOmission ==
    (method = "resume_transcription" /\ wroteFull) =>
        \A i \in Chunks :
            SegmentSet(Shift(modelOut[i], i)) \subseteq SegmentSet(Val(fullStore).segments)

\* C40: over any sequence of autoscaler runs, also runs that start before
\* the spot instances asked for earlier are running, the instances asked for
\* and not terminated never number more than max_instances.
RequestedWithinMax ==
    fleet + requested <= max_instances

====
